---- MODULE Spec2Model ----
(***************************************************************************)
(* LightSync backend: the Scene Manager (internal/scenes), the persistent  *)
(* Store's scene list (internal/store), the Device Manager                 *)
(* (internal/lights/manager.go) and the webcam Monitor                     *)
(* (internal/webcam/monitor.go).                                           *)
(*                                                                         *)
(* Strings that the code parses (device identities, brand tags) are        *)
(* sequences of tokens: the token ":" is the delimiter character and every *)
(* other token is a colon-free piece of text.  Strings that the code only  *)
(* compares (scene ids, triggers, room labels) are TLA+ strings.           *)
(***************************************************************************)
EXTENDS Integers, Sequences, FiniteSets, TLC

\* ---------------------------------------------------------------- bounds
MaxScenes == 2
MaxIdLen == 3
MaxTicks == 5
MaxChecks == 2
MaxWrites == 3

\* ------------------------------------------------------- value universes
\* Brand tags (types.go: BrandLIFX, BrandHue, ...) as one-token strings.
BrandLIFX == <<"lifx">>
BrandHue == <<"hue">>

\* The controllers App.startup registers with the light manager.
StartupBrands == {BrandLIFX, BrandHue}

\* Tokens of device identities: two brand words, a local id and the
\* delimiter.
Tokens == {"lifx", "hue", "d1", ":"}


RECURSIVE SeqsUpTo(_, _)
SeqsUpTo(S, n) ==
    IF n = 0 THEN {<<>>}
    ELSE LET shorter == SeqsUpTo(S, n - 1)
         IN  shorter \cup {Append(s, x) : s \in shorter, x \in S}

\* Every device identity a caller may pass.
DeviceIDs == SeqsUpTo(Tokens, MaxIdLen)

\* Identities found in scenes and in the registry: two LIFX lights and a
\* Hue light.
LifxDev == <<"lifx", ":", "d1">>
LifxDev2 == <<"lifx", ":", "d2">>
HueDev == <<"hue", ":", "d1">>

\* DeviceState values (power, brightness, colour) are opaque to the managers.
DeviceStates == {"warm", "cool"}

\* Scene.Trigger: "" is a manual-only scene.
Triggers == {"", "camera_on", "camera_off"}

\* Scene ids: uuid strings, and the empty string (the zero value of the
\* field, which UpdateScene accepts like any other).
UUIDSeq == <<"u1", "u2">>
UUIDs == {UUIDSeq[i] : i \in 1..Len(UUIDSeq)}
SceneIDs == UUIDs \cup {""}

\* Device maps a caller passes to CreateScene / UpdateScene.
EmptyMap == [x \in {} |-> "warm"]
SceneDeviceMaps ==
    { EmptyMap,
      [x \in {LifxDev, LifxDev2, HueDev} |-> IF x = HueDev THEN "cool" ELSE "warm"] }

NoScene == [ID |-> "", Trigger |-> "", Devices |-> EmptyMap]

\* ---------------------------------------------------------------- state
VARIABLES
    scenes,        \* store.Config.Scenes: the stored scene list, in order
    issued,        \* scene ids uuid.New has already returned or the store has held
    activeScene,   \* scenes.Manager.activeScene
    sceneCall,     \* the last Scene Manager call: [op, id, trigger, cameraOn, err]
    effects,       \* what that call did, in order: activation writes,
                   \* notifications and device commands
    controllers,   \* lights.Manager.controllers: the registered brand tags
    devices,       \* lights.Manager.devices: identity -> Device
    devCall,       \* the last Device Manager call and its outcome
    discovery,     \* the last discoverAll run: what it returned and reported
    active,        \* webcam.Monitor.active: the last observed value
    enabled,       \* webcam.Monitor.enabled
    loopPc,        \* position of the Monitor.Start loop
    loopCameraOn,  \* the loop's local cameraOn
    checkPc,       \* position of a CheckNow call in flight
    checkCameraOn, \* that call's local cameraOn
    handlerCalls,  \* values the change handler was invoked with, in order
    ticks,         \* history: [probe, enabled] of every tick taken
    checks,        \* history: number of CheckNow calls completed
    interval,      \* webcam.Monitor.interval, in milliseconds
    arrays,        \* the heap: backing arrays of the scene slices ever allocated
    sceneSlice,    \* store.Config.Scenes as a slice header: [arr, len]
    settings,      \* store.Config.Settings.PollIntervalMs
    storeDevices,  \* store.Config.Devices
    hueBridges,    \* store.Config.HueBridges
    file,          \* content of config.json
    writers,       \* the store write calls in flight: position and marshalled data
    writes,        \* history: number of store write calls started
    writeErr,      \* history: some save ended with an I/O error
    snap,          \* a slice a caller got from GetScenes, and its content then
    scan,          \* a DiscoverLights call in flight
    act,           \* a scene activation in flight
    conv,          \* Hue colour temperature: kelvin asked, mirek on the bridge, kelvin read
    lifx,          \* a LIFX command in flight: attempts and rediscoveries made
    govee,         \* GoveeController: started flag, listener starts, Discover calls
    hscan,         \* a Scanner.ScanAll call: phases run, bridges found and registered
    probe,         \* a subnet probe: hosts handed out, probes in flight
    ui,            \* the UI light store: pending debounce timers and calls sent
    ticker,        \* the Monitor.Start loop's ticker and reset channel
    lk,            \* the registry lock and the active-scene lock, and their holders
    elgato,        \* the last ElgatoController.SetState: request and update sent
    creators,      \* CreateScene / UpdateScene calls in flight
    overlap,       \* ActivateScene calls in flight and the notifications emitted
    pairing,       \* AddHueBridge calls in flight
    cb             \* DiscoverAllWithProgress goroutines and the scanner's total

sceneVars == <<scenes, issued, activeScene, sceneCall, effects>>
lightVars == <<controllers, devices, devCall, discovery>>
monVars == <<active, enabled, loopPc, loopCameraOn, checkPc, checkCameraOn,
             handlerCalls, ticks, checks>>
storeVars == <<arrays, sceneSlice, settings, storeDevices, hueBridges, file, writers,
               writes, writeErr, snap>>
taskVars == <<scan, act>>
ctrlVars == <<conv, lifx, govee>>
scannerVars == <<hscan, probe>>
moreVars == <<ctrlVars, scannerVars, ui>>
restVars == <<interval, storeVars, taskVars, moreVars>>
oldVars == <<sceneVars, lightVars, monVars, restVars>>
lateVars == <<ticker, lk, elgato, creators, overlap, pairing, cb>>
vars == <<oldVars, lateVars>>

\* ------------------------------------------------------ sequence helpers

\* All iteration orders of a Go map's key set.
Orders(S) ==
    {f \in [1..Cardinality(S) -> S] : \A i, j \in 1..Cardinality(S) : f[i] = f[j] => i = j}

RemoveAt(s, i) == SubSeq(s, 1, i - 1) \o SubSeq(s, i + 1, Len(s))

\* ------------------------------------------------- Device Manager: routing
\* What a controller method may answer: success or a protocol error.
Outcomes == {"", "ProtocolError"}

\* strings.SplitN(id, ":", 2): scan to the first ":" and cut there once.
RECURSIVE SplitN2(_, _)
SplitN2(head, rest) ==
    IF rest = <<>> THEN <<head>>
    ELSE IF Head(rest) = ":" THEN <<head, Tail(rest)>>
    ELSE SplitN2(Append(head, Head(rest)), Tail(rest))

\* Mutant: the brand tag is cut at the last ":" instead of the first.
RECURSIVE LastColon(_)
LastColon(s) ==
    IF s = <<>> THEN 0
    ELSE IF s[Len(s)] = ":" THEN Len(s)
    ELSE LastColon(SubSeq(s, 1, Len(s) - 1))

brandFromDeviceID_lastColon(id) ==
    IF LastColon(id) = 0 THEN <<>> ELSE SubSeq(id, 1, LastColon(id) - 1)

brandFromDeviceID(id) ==
    LET parts == SplitN2(<<>>, id)
    IN  IF Len(parts) < 2 THEN <<>> ELSE parts[1]

GetController(brand) == [ctrl |-> brand, ok |-> brand \in controllers]

controllerFor(deviceID) ==
    LET brand == brandFromDeviceID(deviceID)
        got == GetController(brand)
    IN  IF ~got.ok THEN [ctrl |-> <<>>, err |-> "NotFound"]
        ELSE [ctrl |-> got.ctrl, err |-> ""]

\* Mutant: a failed controller call is repeated once by the Manager.
Command_retryOnce(method, deviceID, got, out) ==
    LET c == controllerFor(deviceID)
        call == [ctrl |-> c.ctrl, method |-> method, id |-> deviceID]
    IN  IF c.err # "" THEN [invoked |-> <<>>, err |-> c.err, result |-> "",
                            answer |-> [reached |-> FALSE, err |-> "", state |-> ""]]
        ELSE [invoked |-> IF out # "" THEN <<call, call>> ELSE <<call>>,
              err |-> out, result |-> got,
              answer |-> [reached |-> TRUE, err |-> out, state |-> got]]

\* One Manager command: the controller invocations it makes, and the value
\* and error it returns, when the controller (if one is reached) answers the
\* value `got` ("" for the methods that return only an error) and the
\* error `out`.  `answer` records what the controller returned.
Command(method, deviceID, got, out) ==
    LET c == controllerFor(deviceID)
    IN  IF c.err # "" THEN [invoked |-> <<>>, err |-> c.err, result |-> "",
                            answer |-> [reached |-> FALSE, err |-> "", state |-> ""]]
        ELSE [invoked |-> <<[ctrl |-> c.ctrl, method |-> method, id |-> deviceID]>>,
              err |-> out, result |-> got,
              answer |-> [reached |-> TRUE, err |-> out, state |-> got]]

SetDeviceState(deviceID, state, out) == Command("SetState", deviceID, "", out)
GetDeviceState(deviceID, got, out) == Command("GetState", deviceID, got, out)
TurnOn(deviceID, out) == Command("TurnOn", deviceID, "", out)
TurnOff(deviceID, out) == Command("TurnOff", deviceID, "", out)

NoDevCall ==
    [op |-> "", id |-> <<>>, invoked |-> <<>>, err |-> "", result |-> "",
     answer |-> [reached |-> FALSE, err |-> "", state |-> ""]]

\* A direct single-device command of the command surface.  `state` is the
\* argument of SetDeviceState and the state the controller answers to
\* GetDeviceState.
DeviceCommand(op, deviceID, state, out) ==
    LET r == CASE op = "SetDeviceState" -> SetDeviceState(deviceID, state, out)
               [] op = "GetDeviceState" -> GetDeviceState(deviceID, state, out)
               [] op = "TurnOn" -> TurnOn(deviceID, out)
               [] OTHER -> TurnOff(deviceID, out)
    IN  /\ devCall' = [op |-> op, id |-> deviceID, invoked |-> r.invoked,
                       err |-> r.err, result |-> r.result, answer |-> r.answer]
        /\ UNCHANGED <<lateVars, controllers, devices, discovery, sceneVars, monVars, restVars>>

ManagerOps == {"SetDeviceState", "GetDeviceState", "TurnOn", "TurnOff"}


\* ------------------------------------------- Device Manager: the registry
\* Device records: Name stands for every field rediscovery refreshes (name,
\* model, address, capabilities), Room is the user-assigned label.
Names == {"n1", "n2"}
Rooms == {"", "office"}

\* The hardware each brand's network may hold.
Hardware(brand) ==
    IF brand = BrandLIFX THEN {LifxDev, LifxDev2}
    ELSE IF brand = BrandHue THEN {HueDev}
    ELSE {}
RegistryIDs == UNION {Hardware(b) : b \in StartupBrands}

NoDevices == [x \in {} |-> [ID |-> <<>>, Name |-> "", Room |-> ""]]

\* What one controller's Discover may return: an error, or a list of
\* distinct devices of its brand; controllers never fill in Room.
DiscoverErr == [err |-> TRUE, devices |-> <<>>]
ControllerResults(brand) ==
    {DiscoverErr} \cup
    {[err |-> FALSE, devices |-> l] :
        l \in {l \in SeqsUpTo([ID : Hardware(brand), Name : Names, Room : {""}],
                               Cardinality(Hardware(brand))) :
                  \A i, j \in 1..Len(l) : l[i].ID = l[j].ID => i = j}}

\* The same, tabulated per registered brand.
AllResults == [b \in StartupBrands |-> ControllerResults(b)]

RECURSIVE Concat(_, _, _)
\* allDevices / errs / onDevices calls, accumulated in completion order.
Concat(order, res, i) ==
    IF i > Len(order) THEN <<>>
    ELSE res[order[i]].devices \o Concat(order, res, i + 1)

RECURSIVE Errs(_, _, _)
Errs(order, res, i) ==
    IF i > Len(order) THEN <<>>
    ELSE (IF res[order[i]].err THEN <<order[i]>> ELSE <<>>) \o Errs(order, res, i + 1)

RECURSIVE Progress(_, _, _)
Progress(order, res, i) ==
    IF i > Len(order) THEN <<>>
    ELSE (IF ~res[order[i]].err /\ Len(res[order[i]].devices) > 0
          THEN <<res[order[i]].devices>> ELSE <<>>)
         \o Progress(order, res, i + 1)

\* Mutant: rediscovery replaces the registry entry wholesale.
RECURSIVE Merge_replace(_, _, _)
Merge_replace(reg, all, i) ==
    IF i > Len(all) THEN reg
    ELSE Merge_replace([x \in DOMAIN reg \cup {all[i].ID} |->
                           IF x = all[i].ID THEN all[i] ELSE reg[x]], all, i + 1)

\* Mutant: the registry is rebuilt from the devices just found.
Merge_dropMissing(reg, all, i) ==
    [x \in {all[k].ID : k \in 1..Len(all)} |->
        LET d == all[CHOOSE k \in 1..Len(all) : all[k].ID = x]
        IN  IF x \in DOMAIN reg THEN [d EXCEPT !.Room = reg[x].Room] ELSE d]

RECURSIVE Merge(_, _, _)
\* The merge loop: keep the existing Room, take everything else from d.
Merge(reg, all, i) ==
    IF i > Len(all) THEN reg
    ELSE LET d == IF all[i].ID \in DOMAIN reg
                  THEN [all[i] EXCEPT !.Room = reg[all[i].ID].Room]
                  ELSE all[i]
         IN  Merge([x \in DOMAIN reg \cup {d.ID} |-> IF x = d.ID THEN d ELSE reg[x]],
                   all, i + 1)

\* Mutant: any controller error makes the whole run a hard failure.
HardFailure_anyError(errs, allDevices) == Len(errs) > 0

\* The hard-failure test at the end of DiscoverAllWithProgress.
HardFailure(errs, allDevices) == Len(errs) > 0 /\ Len(allDevices) = 0

\* Scanner.ScanAll's result.Errors: one string, and only when
\* DiscoverAllWithProgress returned an error.  A string is modelled by the
\* list of brands it names ("discovery failed: [lifx: ..., hue: ...]").
ScanErrors(errs, allDevices) ==
    IF HardFailure(errs, allDevices) THEN <<errs>> ELSE <<>>

NoDiscovery == [ran |-> FALSE, res |-> [x \in {} |-> DiscoverErr],
                devices |-> <<>>, errs |-> <<>>, failed |-> FALSE,
                errors |-> <<>>, progress |-> <<>>]

\* Manager.DiscoverAllWithProgress as Scanner.ScanAll calls it: every
\* controller answers, in some completion order; the results are merged
\* into the registry.
DiscoverAll ==
    \E order \in Orders(controllers) :
      \E res \in [controllers -> UNION {AllResults[b] : b \in controllers}] :
        /\ \A b \in controllers : res[b] \in AllResults[b]
        /\ LET allDevices == Concat(order, res, 1)
               errs == Errs(order, res, 1)
           IN  /\ devices' = Merge(devices, allDevices, 1)
               /\ discovery' = [ran |-> TRUE,
                                res |-> res,
                                devices |-> IF HardFailure(errs, allDevices)
                                            THEN <<>> ELSE allDevices,
                                errs |-> errs,
                                failed |-> HardFailure(errs, allDevices),
                                errors |-> ScanErrors(errs, allDevices),
                                progress |-> Progress(order, res, 1)]
        /\ devCall' = [NoDevCall EXCEPT !.op = "DiscoverAll"]
        /\ UNCHANGED <<lateVars, controllers, sceneVars, monVars, restVars>>

SetDeviceRoom(deviceID, room) ==
    /\ devices' = IF deviceID \in DOMAIN devices
                  THEN [devices EXCEPT ![deviceID].Room = room]
                  ELSE devices
    /\ devCall' = [NoDevCall EXCEPT !.op = "SetDeviceRoom"]
    /\ UNCHANGED <<lateVars, controllers, discovery, sceneVars, monVars, restVars>>

RemoveDevice(deviceID) ==
    /\ devices' = [x \in DOMAIN devices \ {deviceID} |-> devices[x]]
    /\ devCall' = [NoDevCall EXCEPT !.op = "RemoveDevice"]
    /\ UNCHANGED <<lateVars, controllers, discovery, sceneVars, monVars, restVars>>

\* ------------------------------------------------------- webcam Monitor
\* Mutant: the enabled flag is not consulted before probing.
TickProbe_probesWhenDisabled ==
    /\ loopPc = "idle"
    /\ Len(ticks) < MaxTicks
    /\ \E cameraOn \in BOOLEAN :
          /\ loopCameraOn' = cameraOn
          /\ loopPc' = "probed"
          /\ ticks' = Append(ticks, [enabled |-> enabled, probe |-> cameraOn])
    /\ UNCHANGED <<lateVars, active, enabled, checkPc, checkCameraOn, handlerCalls, checks,
                   sceneVars, lightVars, restVars>>

\* The ticker fires: read the enabled flag and, if enabled, probe the camera.
TickProbe ==
    /\ loopPc = "idle"
    /\ Len(ticks) < MaxTicks
    /\ IF ~enabled
       THEN /\ ticks' = Append(ticks, [enabled |-> FALSE, probe |-> FALSE])
            /\ UNCHANGED <<lateVars, loopPc, loopCameraOn>>
       ELSE \E cameraOn \in BOOLEAN :
              /\ loopCameraOn' = cameraOn
              /\ loopPc' = "probed"
              /\ ticks' = Append(ticks, [enabled |-> TRUE, probe |-> cameraOn])
    /\ UNCHANGED <<lateVars, active, enabled, checkPc, checkCameraOn, handlerCalls, checks,
                   sceneVars, lightVars, restVars>>

\* Mutant: level-triggered, the handler is invoked at every enabled tick.
TickCommit_levelTriggered ==
    /\ loopPc = "probed"
    /\ handlerCalls' = Append(handlerCalls, [value |-> loopCameraOn, checks |-> checks])
    /\ active' = loopCameraOn
    /\ loopPc' = "idle"
    /\ UNCHANGED <<lateVars, enabled, loopCameraOn, checkPc, checkCameraOn, ticks, checks,
                   sceneVars, lightVars, restVars>>

\* Mutant: the probed value is compared but not stored.
TickCommit_noStore ==
    /\ loopPc = "probed"
    /\ LET changed == active # loopCameraOn
       IN  handlerCalls' = IF changed
                           THEN Append(handlerCalls,
                                       [value |-> loopCameraOn, checks |-> checks])
                           ELSE handlerCalls
    /\ loopPc' = "idle"
    /\ UNCHANGED <<lateVars, active, enabled, loopCameraOn, checkPc, checkCameraOn, ticks, checks,
                   sceneVars, lightVars, restVars>>

\* Under the lock: compare with and store the last observed value; then
\* invoke the handler if it changed.
TickCommit ==
    /\ loopPc = "probed"
    /\ LET changed == active # loopCameraOn
       IN  handlerCalls' = IF changed
                           THEN Append(handlerCalls,
                                       [value |-> loopCameraOn, checks |-> checks])
                           ELSE handlerCalls
    /\ active' = loopCameraOn
    /\ loopPc' = "idle"
    /\ UNCHANGED <<lateVars, enabled, loopCameraOn, checkPc, checkCameraOn, ticks, checks,
                   sceneVars, lightVars, restVars>>

\* Monitor.CheckNow: probe ...
CheckNowProbe ==
    /\ checkPc = "idle"
    /\ checks < MaxChecks
    /\ \E cameraOn \in BOOLEAN : checkCameraOn' = cameraOn
    /\ checkPc' = "probed"
    /\ UNCHANGED <<lateVars, active, enabled, loopPc, loopCameraOn, handlerCalls, ticks, checks,
                   sceneVars, lightVars, restVars>>

\* Mutant: CheckNow goes through the loop's edge logic.
CheckNowCommit_edgeLogic ==
    /\ checkPc = "probed"
    /\ handlerCalls' = IF active # checkCameraOn
                        THEN Append(handlerCalls,
                                    [value |-> checkCameraOn, checks |-> checks])
                        ELSE handlerCalls
    /\ active' = checkCameraOn
    /\ checks' = checks + 1
    /\ checkPc' = "idle"
    /\ UNCHANGED <<lateVars, enabled, loopPc, loopCameraOn, checkCameraOn, ticks,
                   sceneVars, lightVars, restVars>>

\* ... then store the value under the lock and return it.
CheckNowCommit ==
    /\ checkPc = "probed"
    /\ active' = checkCameraOn
    /\ checks' = checks + 1
    /\ checkPc' = "idle"
    /\ UNCHANGED <<lateVars, enabled, loopPc, loopCameraOn, checkCameraOn, handlerCalls, ticks,
                   sceneVars, lightVars, restVars>>

SetEnabled(e) ==
    /\ enabled' = e
    /\ UNCHANGED <<lateVars, active, loopPc, loopCameraOn, checkPc, checkCameraOn, handlerCalls,
                   ticks, checks, sceneVars, lightVars, restVars>>

\* ------------------------------------------------ Store: the scene list
GetScenes == scenes

\* Store.UpsertScene: replace the first scene with the same id, else append.
UpsertScene(scene) ==
    IF \E i \in 1..Len(scenes) : scenes[i].ID = scene.ID
    THEN LET i == CHOOSE i \in 1..Len(scenes) :
                      /\ scenes[i].ID = scene.ID
                      /\ \A j \in 1..(i - 1) : scenes[j].ID # scene.ID
         IN  [scenes EXCEPT ![i] = scene]
    ELSE Append(scenes, scene)

\* Store.DeleteScene: remove the first scene with that id, if any.
StoreDeleteScene(id) ==
    IF \E i \in 1..Len(scenes) : scenes[i].ID = id
    THEN LET i == CHOOSE i \in 1..Len(scenes) :
                      /\ scenes[i].ID = id
                      /\ \A j \in 1..(i - 1) : scenes[j].ID # id
         IN  RemoveAt(scenes, i)
    ELSE scenes

\* ------------------------------------------------------- Scene Manager
\* Manager.GetScene: the first stored scene with that id.
GetScene(id) ==
    IF \E i \in 1..Len(GetScenes) : GetScenes[i].ID = id
    THEN [ok |-> TRUE,
          scene |-> GetScenes[CHOOSE i \in 1..Len(GetScenes) :
                                 /\ GetScenes[i].ID = id
                                 /\ \A j \in 1..(i - 1) : GetScenes[j].ID # id]]
    ELSE [ok |-> FALSE, scene |-> NoScene]

triggerInUse(trigger, excludeID) ==
    IF trigger = "" THEN FALSE
    ELSE \E i \in 1..Len(GetScenes) :
             GetScenes[i].ID # excludeID /\ GetScenes[i].Trigger = trigger

\* Entries of `effects`.
EvActive(id) ==
    [kind |-> "active", sceneID |-> id, scene |-> NoScene,
     deviceID |-> <<>>, state |-> "", err |-> ""]
EvNotify(scene) ==
    [kind |-> "notify", sceneID |-> scene.ID, scene |-> scene,
     deviceID |-> <<>>, state |-> "", err |-> ""]
EvSet(deviceID, state, err) ==
    [kind |-> "set", sceneID |-> "", scene |-> NoScene,
     deviceID |-> deviceID, state |-> state, err |-> err]

\* Mutant: the fan-out loop returns at the first failing device.
FanOut_abortOnError(devs, order, out) ==
    LET all == [i \in 1..Len(order) |->
                  EvSet(order[i], devs[order[i]],
                        SetDeviceState(order[i], devs[order[i]],
                                       IF order[i] \in DOMAIN out THEN out[order[i]]
                                       ELSE "").err)]
        bad == {i \in 1..Len(all) : all[i].err # ""}
    IN  IF bad = {} THEN all
        ELSE SubSeq(all, 1, CHOOSE i \in bad : \A j \in bad : i <= j)

\* The fan-out loop of ActivateScene: one SetDeviceState per map entry, in
\* the map's iteration order; an error is skipped.
FanOut(devs, order, out) ==
    [i \in 1..Len(order) |->
        EvSet(order[i], devs[order[i]],
              SetDeviceState(order[i], devs[order[i]],
                             IF order[i] \in DOMAIN out THEN out[order[i]] ELSE "").err)]

\* The map entries whose command reaches a controller, which then answers.
Routed(devs) == {d \in DOMAIN devs : controllerFor(d).err = ""}

\* Mutant: the active scene is written before the lookup.
Activation_markUnknown(id) ==
    LET r == GetScene(id)
    IN  IF ~r.ok
        THEN {[err |-> "NotFound", active |-> id, effects |-> <<EvActive(id)>>]}
        ELSE {[err |-> "", active |-> id,
               effects |-> <<EvActive(id), EvNotify(r.scene)>>
                           \o FanOut(r.scene.Devices, order, out)] :
                 order \in Orders(DOMAIN r.scene.Devices),
                 out \in [Routed(r.scene.Devices) -> Outcomes]}

\* Mutant: the device commands are sent first, the scene is marked active
\* and announced afterwards.
Activation_applyFirst(id) ==
    LET r == GetScene(id)
    IN  IF ~r.ok
        THEN {[err |-> "NotFound", active |-> activeScene, effects |-> <<>>]}
        ELSE {[err |-> "", active |-> id,
               effects |-> FanOut(r.scene.Devices, order, out)
                           \o <<EvActive(id), EvNotify(r.scene)>>] :
                 order \in Orders(DOMAIN r.scene.Devices),
                 out \in [Routed(r.scene.Devices) -> Outcomes]}

\* Manager.ActivateScene(id): every outcome it can have, over the map's
\* iteration orders and the controllers' answers.
Activation(id) ==
    LET r == GetScene(id)
    IN  IF ~r.ok
        THEN {[err |-> "NotFound", active |-> activeScene, effects |-> <<>>]}
        ELSE {[err |-> "", active |-> id,
               effects |-> <<EvActive(id), EvNotify(r.scene)>>
                           \o FanOut(r.scene.Devices, order, out)] :
                 order \in Orders(DOMAIN r.scene.Devices),
                 out \in [Routed(r.scene.Devices) -> Outcomes]}

\* uuid.New: an id that was never issued and that the store never held
\* (the candidates are interchangeable, so the first one is taken).
NewUUID ==
    UUIDSeq[CHOOSE i \in 1..Len(UUIDSeq) :
                /\ UUIDSeq[i] \notin issued
                /\ \A j \in 1..(i - 1) : UUIDSeq[j] \in issued]

CreateScene(trigger, devs) ==
    /\ Len(scenes) < MaxScenes
    /\ UUIDs \ issued # {}
    /\ IF triggerInUse(trigger, "")
       THEN /\ sceneCall' = [op |-> "CreateScene", id |-> "", trigger |-> trigger, cameraOn |-> FALSE,
                             err |-> "Conflict"]
            /\ UNCHANGED <<lateVars, scenes, issued>>
       ELSE \E id \in {NewUUID} :
              /\ scenes' = UpsertScene([ID |-> id, Trigger |-> trigger, Devices |-> devs])
              /\ issued' = issued \cup {id}
              /\ sceneCall' = [op |-> "CreateScene", id |-> id, trigger |-> trigger, cameraOn |-> FALSE,
                               err |-> ""]
    /\ effects' = <<>>
    /\ UNCHANGED <<lateVars, activeScene, lightVars, monVars, restVars>>

UpdateScene(scene) ==
    /\ (\E i \in 1..Len(scenes) : scenes[i].ID = scene.ID) \/ Len(scenes) < MaxScenes
    /\ IF triggerInUse(scene.Trigger, scene.ID)
       THEN /\ sceneCall' = [op |-> "UpdateScene", id |-> scene.ID,
                             trigger |-> scene.Trigger, cameraOn |-> FALSE, err |-> "Conflict"]
            /\ UNCHANGED <<lateVars, scenes, issued>>
       ELSE /\ scenes' = UpsertScene(scene)
            /\ issued' = issued \cup ({scene.ID} \cap UUIDs)
            /\ sceneCall' = [op |-> "UpdateScene", id |-> scene.ID,
                             trigger |-> scene.Trigger, cameraOn |-> FALSE, err |-> ""]
    /\ effects' = <<>>
    /\ UNCHANGED <<lateVars, activeScene, lightVars, monVars, restVars>>

DeleteScene(id) ==
    /\ scenes' = StoreDeleteScene(id)
    /\ sceneCall' = [op |-> "DeleteScene", id |-> id, trigger |-> "", cameraOn |-> FALSE, err |-> ""]
    /\ effects' = <<>>
    /\ UNCHANGED <<lateVars, issued, activeScene, lightVars, monVars, restVars>>

ActivateScene(id) ==
    /\ \E a \in Activation(id) :
         /\ activeScene' = a.active
         /\ effects' = a.effects
         /\ sceneCall' = [op |-> "ActivateScene", id |-> id, trigger |-> "", cameraOn |-> FALSE, err |-> a.err]
    /\ UNCHANGED <<lateVars, scenes, issued, lightVars, monVars, restVars>>

\* Mutant: the two trigger names are swapped.
TriggerFor_swapped(cameraOn) == IF cameraOn THEN "camera_off" ELSE "camera_on"

\* The trigger name OnCameraStateChange derives from the sensor value.
TriggerFor(cameraOn) == IF cameraOn THEN "camera_on" ELSE "camera_off"

OnCameraStateChange(cameraOn) ==
    LET trigger == TriggerFor(cameraOn)
        call == [op |-> "OnCameraStateChange", id |-> "", trigger |-> "",
                 cameraOn |-> cameraOn, err |-> ""]
    IN  /\ IF \E i \in 1..Len(GetScenes) : GetScenes[i].Trigger = trigger
           THEN LET i == CHOOSE i \in 1..Len(GetScenes) :
                             /\ GetScenes[i].Trigger = trigger
                             /\ \A j \in 1..(i - 1) : GetScenes[j].Trigger # trigger
                IN  \E a \in Activation(GetScenes[i].ID) :
                      /\ activeScene' = a.active
                      /\ effects' = a.effects
           ELSE /\ effects' = <<>>
                /\ UNCHANGED activeScene
        /\ sceneCall' = call
        /\ UNCHANGED <<lateVars, scenes, issued, lightVars, monVars, restVars>>

NoSceneCall == [op |-> "", id |-> "", trigger |-> "", cameraOn |-> FALSE, err |-> ""]

\* ------------------------------------------- Store: memory, slices, file
\* The store at the level of Go values: Config.Scenes is a slice header
\* over a backing array, every write call is a locked mutation followed by
\* save (marshal under the read lock, then os.WriteFile), and write calls
\* of different goroutines interleave at the lock boundaries.
Writers == {1, 2}
DefaultPollMs == 1000
MinPollMs == 500
PollValues == {0 - 100, 0, 100, 499, 500, 2000}
StoreScenes == [ID : UUIDs, Trigger : {"", "camera_on"}, Devices : {EmptyMap}]
StoreDeviceLists == {<<>>, <<[ID |-> LifxDev, Name |-> "n1", Room |-> ""]>>}
BridgeLists == {<<>>, <<"bridge1">>}

NilSlice == [arr |-> 0, len |-> 0]
NoFile == [exists |-> FALSE, Scenes |-> <<>>, Settings |-> 0, Devices |-> <<>>,
           HueBridges |-> <<>>]
NoSnap == [taken |-> FALSE, slice |-> NilSlice, orig |-> <<>>]
IdleWriter == [pc |-> "idle", data |-> NoFile]

\* The elements a slice header shows: the first len slots of its array.
SliceView(heap, sl) == IF sl.arr = 0 THEN <<>> ELSE SubSeq(heap[sl.arr], 1, sl.len)
Cap(heap, sl) == IF sl.arr = 0 THEN 0 ELSE Len(heap[sl.arr])

\* Capacity append gives a full slice of capacity c.
GrowCap(c) == IF c = 0 THEN 1 ELSE 2 * c
RECURSIVE CapFor(_, _)
\* Capacity of a slice grown one element at a time to length n.
CapFor(c, n) == IF c >= n THEN c ELSE CapFor(GrowCap(c), n)
ZeroFill(seq, c) == [k \in 1..c |-> IF k <= Len(seq) THEN seq[k] ELSE NoScene]

FirstWithID(list, id) ==
    CHOOSE i \in 1..Len(list) : list[i].ID = id /\ \A j \in 1..(i - 1) : list[j].ID # id

\* Store.GetScenes: returns the slice header s.config.Scenes itself.
GetScenesCall ==
    /\ snap' = [taken |-> TRUE, slice |-> sceneSlice,
                orig |-> SliceView(arrays, sceneSlice)]
    /\ UNCHANGED <<lateVars, arrays, sceneSlice, settings, storeDevices, hueBridges, file, writers,
                   writes, writeErr, interval, taskVars, moreVars, sceneVars, lightVars, monVars>>

\* json.MarshalIndent(s.config): the config by value.
Marshal ==
    [exists |-> TRUE, Scenes |-> SliceView(arrays, sceneSlice), Settings |-> settings,
     Devices |-> storeDevices, HueBridges |-> hueBridges]

\* A write call w enters: its locked section runs, save is still to come.
Enter(w) ==
    /\ writers[w].pc = "idle"
    /\ writes < MaxWrites
    /\ writers' = [writers EXCEPT ![w].pc = "save"]
    /\ writes' = writes + 1

\* Store.UpsertScene, the locked section: assign in place to the slot of
\* the first scene with that id, else append.
UpsertSceneLocked(w, scene) ==
    LET view == SliceView(arrays, sceneSlice)
    IN  /\ Enter(w)
        /\ (\E i \in 1..Len(view) : view[i].ID = scene.ID) \/ Len(view) < MaxScenes
        /\ IF \E i \in 1..Len(view) : view[i].ID = scene.ID
           THEN /\ arrays' = [arrays EXCEPT
                                 ![sceneSlice.arr][FirstWithID(view, scene.ID)] = scene]
                /\ UNCHANGED sceneSlice
           ELSE IF sceneSlice.len < Cap(arrays, sceneSlice)
           THEN /\ arrays' = [arrays EXCEPT ![sceneSlice.arr][sceneSlice.len + 1] = scene]
                /\ sceneSlice' = [sceneSlice EXCEPT !.len = @ + 1]
           ELSE /\ arrays' = Append(arrays,
                                    ZeroFill(Append(view, scene),
                                             GrowCap(Cap(arrays, sceneSlice))))
                /\ sceneSlice' = [arr |-> Len(arrays) + 1, len |-> sceneSlice.len + 1]
        /\ scenes' = UpsertScene(scene)
        /\ UNCHANGED <<lateVars, settings, storeDevices, hueBridges, file, writeErr, snap, interval,
                       taskVars, moreVars, issued, activeScene, sceneCall, effects, lightVars,
                       monVars>>

\* Store.DeleteScene, the locked section: append(s[:i], s[i+1:]...) moves
\* the tail one slot down inside the same array.
DeleteSceneLocked(w, id) ==
    LET view == SliceView(arrays, sceneSlice)
    IN  /\ Enter(w)
        /\ IF \E i \in 1..Len(view) : view[i].ID = id
           THEN LET i == FirstWithID(view, id)
                    a == arrays[sceneSlice.arr]
                IN  /\ arrays' = [arrays EXCEPT ![sceneSlice.arr] =
                                     [k \in 1..Len(a) |->
                                        IF k >= i /\ k < sceneSlice.len THEN a[k + 1]
                                        ELSE a[k]]]
                    /\ sceneSlice' = [sceneSlice EXCEPT !.len = @ - 1]
           ELSE UNCHANGED <<lateVars, arrays, sceneSlice>>
        /\ scenes' = StoreDeleteScene(id)
        /\ UNCHANGED <<lateVars, settings, storeDevices, hueBridges, file, writeErr, snap, interval,
                       taskVars, moreVars, issued, activeScene, sceneCall, effects, lightVars,
                       monVars>>

\* Store.SetDevices, the locked section.
SetDevicesLocked(w, devs) ==
    /\ Enter(w)
    /\ storeDevices' = devs
    /\ UNCHANGED <<lateVars, arrays, sceneSlice, settings, hueBridges, file, writeErr, snap,
                   interval, taskVars, moreVars, sceneVars, lightVars, monVars>>

\* Store.SetHueBridges, the locked section.
SetHueBridgesLocked(w, bridges) ==
    /\ Enter(w)
    /\ hueBridges' = bridges
    /\ UNCHANGED <<lateVars, arrays, sceneSlice, settings, storeDevices, file, writeErr, snap,
                   interval, taskVars, moreVars, sceneVars, lightVars, monVars>>

\* Monitor.SetInterval: the new value of m.interval.
SetInterval(d) == d

\* App.UpdateSettings up to the end of SetSettings' locked section: a
\* positive pollIntervalMs goes to the monitor, the settings go to the store.
UpdateSettings(w, ms) ==
    /\ Enter(w)
    /\ interval' = IF ms > 0 THEN SetInterval(ms) ELSE interval
    /\ settings' = ms
    /\ UNCHANGED <<lateVars, arrays, sceneSlice, storeDevices, hueBridges, file, writeErr, snap,
                   taskVars, moreVars, sceneVars, lightVars, monVars>>

\* Store.save, first half: marshal the config under the read lock.
SaveMarshal(w) ==
    /\ writers[w].pc = "save"
    /\ writers' = [writers EXCEPT ![w] = [pc |-> "write", data |-> Marshal]]
    /\ UNCHANGED <<lateVars, arrays, sceneSlice, settings, storeDevices, hueBridges, file, writes,
                   writeErr, snap, interval, taskVars, moreVars, sceneVars, lightVars, monVars>>

\* Store.save, second half: MkdirAll and os.WriteFile, outside any lock;
\* the write call returns.  On an I/O error the file keeps its content.
SaveWrite(w, ok) ==
    /\ writers[w].pc = "write"
    /\ file' = IF ok THEN writers[w].data ELSE file
    /\ writeErr' = (writeErr \/ ~ok)
    /\ writers' = [writers EXCEPT ![w] = IdleWriter]
    /\ UNCHANGED <<lateVars, arrays, sceneSlice, settings, storeDevices, hueBridges, writes, snap,
                   interval, taskVars, moreVars, sceneVars, lightVars, monVars>>

\* The interval App.startup gives the monitor for a stored pollIntervalMs.
StartupInterval(ms) == IF ms < MinPollMs THEN DefaultPollMs ELSE ms

\* The application is started again: store.New loads config.json into a
\* fresh Config, App.startup fills the registry from the stored devices and
\* creates the monitor.
Restart ==
    /\ \A w \in Writers : writers[w].pc = "idle"
    /\ file.exists
    /\ arrays' = IF file.Scenes = <<>> THEN <<>>
                  ELSE <<ZeroFill(file.Scenes, CapFor(0, Len(file.Scenes)))>>
    /\ sceneSlice' = IF file.Scenes = <<>> THEN NilSlice
                      ELSE [arr |-> 1, len |-> Len(file.Scenes)]
    /\ scenes' = file.Scenes
    /\ settings' = file.Settings
    /\ storeDevices' = file.Devices
    /\ hueBridges' = file.HueBridges
    /\ interval' = StartupInterval(file.Settings)
    /\ snap' = NoSnap
    /\ devices' = [id \in {file.Devices[i].ID : i \in 1..Len(file.Devices)} |->
                      file.Devices[CHOOSE i \in 1..Len(file.Devices) :
                                      file.Devices[i].ID = id]]
    /\ UNCHANGED <<lateVars, file, writers, writes, writeErr, taskVars, moreVars, issued, activeScene,
                   sceneCall, effects, controllers, devCall, discovery, monVars>>

\* --------------------------------------- discovery as concurrent goroutines
\* DiscoverAllWithProgress step by step: one goroutine per controller calls
\* Discover(ctx), appends its result under the local mutex and signals the
\* wait group; the caller sits in wg.Wait().  ctx is the 30 s context of
\* App.DiscoverLights.  A Discover call answers, or blocks in a call that
\* ends when ctx is cancelled, or blocks in a call that does not look at ctx.
NoScan == [pc |-> "idle", pending |-> {}, waiting |-> {}, hung |-> {},
           ctxDone |-> FALSE, allDevices |-> <<>>, errs |-> <<>>,
           devices |-> <<>>, failed |-> FALSE]

\* What a goroutine does with the result of ctrl.Discover, under mu.
Collect(b, r) ==
    [scan EXCEPT !.pending = @ \ {b}, !.waiting = @ \ {b},
                 !.errs = IF r.err THEN Append(@, b) ELSE @,
                 !.allDevices = IF r.err THEN @ ELSE @ \o r.devices]

\* What a Discover call returns when its context is cancelled under it: an
\* error, or (Hue, Elgato: the failed request is logged and skipped) nothing.
CancelledResults == {DiscoverErr, [err |-> FALSE, devices |-> <<>>]}

StartDiscoverAll ==
    /\ scan.pc # "waiting"
    /\ scan' = [NoScan EXCEPT !.pc = "waiting", !.pending = controllers]
    /\ UNCHANGED <<lateVars, act, interval, storeVars, moreVars, sceneVars, lightVars, monVars>>

DiscoverReturns(b, r) ==
    /\ scan.pc = "waiting"
    /\ b \in scan.pending \ (scan.waiting \cup scan.hung)
    /\ r \in AllResults[b]
    /\ scan' = Collect(b, r)
    /\ UNCHANGED <<lateVars, act, interval, storeVars, moreVars, sceneVars, lightVars, monVars>>

DiscoverBlocks(b, cancellable) ==
    /\ scan.pc = "waiting"
    /\ b \in scan.pending \ (scan.waiting \cup scan.hung)
    /\ cancellable => ~scan.ctxDone
    /\ scan' = IF cancellable THEN [scan EXCEPT !.waiting = @ \cup {b}]
                ELSE [scan EXCEPT !.hung = @ \cup {b}]
    /\ UNCHANGED <<lateVars, act, interval, storeVars, moreVars, sceneVars, lightVars, monVars>>

DiscoverCancelled(b, r) ==
    /\ scan.pc = "waiting"
    /\ scan.ctxDone
    /\ b \in scan.waiting
    /\ r \in CancelledResults
    /\ scan' = Collect(b, r)
    /\ UNCHANGED <<lateVars, act, interval, storeVars, moreVars, sceneVars, lightVars, monVars>>

\* The deadline of App.DiscoverLights' context passes.
ScanDeadline ==
    /\ scan.pc = "waiting"
    /\ ~scan.ctxDone
    /\ scan' = [scan EXCEPT !.ctxDone = TRUE]
    /\ UNCHANGED <<lateVars, act, interval, storeVars, moreVars, sceneVars, lightVars, monVars>>

\* wg.Wait() returns once every goroutine is done; merge and return.
WaitReturns ==
    /\ scan.pc = "waiting"
    /\ scan.pending = {}
    /\ devices' = Merge(devices, scan.allDevices, 1)
    /\ scan' = [scan EXCEPT !.pc = "returned",
                            !.failed = HardFailure(scan.errs, scan.allDevices),
                            !.devices = IF HardFailure(scan.errs, scan.allDevices)
                                        THEN <<>> ELSE scan.allDevices]
    /\ devCall' = [NoDevCall EXCEPT !.op = "DiscoverAll"]
    /\ UNCHANGED <<lateVars, controllers, discovery, act, interval, storeVars, moreVars, sceneVars, monVars>>

\* ------------------------------------------ activation under its context
\* ActivateScene step by step: the scene is looked up, marked active and
\* announced, then one SetDeviceState(ctx, ...) per map entry is awaited in
\* turn.  App.ActivateScene passes a context with a 10 s timeout; the
\* monitor's change handler passes the application context a.ctx.  A
\* command answers, or blocks until its context is cancelled.
NoAct == [pc |-> "idle", source |-> "", bounded |-> FALSE, ctxDone |-> FALSE,
          devs |-> EmptyMap, todo |-> <<>>, blocked |-> FALSE]

\* Manager.ActivateScene(ctx, id) up to the start of the fan-out loop.
BeginActivation(id, source, bounded) ==
    LET r == GetScene(id)
    IN  IF ~r.ok
        THEN /\ act' = [NoAct EXCEPT !.pc = "returned", !.source = source]
             /\ effects' = <<>>
             /\ UNCHANGED activeScene
        ELSE /\ \E order \in Orders(DOMAIN r.scene.Devices) :
                    act' = [pc |-> "running", source |-> source, bounded |-> bounded,
                            ctxDone |-> FALSE, devs |-> r.scene.Devices,
                            todo |-> order, blocked |-> FALSE]
             /\ activeScene' = id
             /\ effects' = <<EvActive(id), EvNotify(r.scene)>>

\* App.ActivateScene: context.WithTimeout(a.ctx, 10 s).
AppActivateScene(id) ==
    /\ act.pc # "running"
    /\ BeginActivation(id, "manual", TRUE)
    /\ sceneCall' = [op |-> "ActivateScene", id |-> id, trigger |-> "",
                     cameraOn |-> FALSE, err |-> IF GetScene(id).ok THEN "" ELSE "NotFound"]
    /\ UNCHANGED <<lateVars, scenes, issued, scan, interval, storeVars, moreVars, lightVars, monVars>>

\* The monitor's change handler: OnCameraStateChange(a.ctx, cameraOn).
CameraHandler(cameraOn) ==
    /\ act.pc # "running"
    /\ IF \E i \in 1..Len(GetScenes) : GetScenes[i].Trigger = TriggerFor(cameraOn)
       THEN BeginActivation(
                GetScenes[CHOOSE i \in 1..Len(GetScenes) :
                    /\ GetScenes[i].Trigger = TriggerFor(cameraOn)
                    /\ \A j \in 1..(i - 1) :
                           GetScenes[j].Trigger # TriggerFor(cameraOn)].ID,
                "sensor", FALSE)
       ELSE /\ act' = [NoAct EXCEPT !.pc = "returned", !.source = "sensor"]
            /\ effects' = <<>>
            /\ UNCHANGED activeScene
    /\ sceneCall' = [op |-> "OnCameraStateChange", id |-> "", trigger |-> "",
                     cameraOn |-> cameraOn, err |-> ""]
    /\ UNCHANGED <<lateVars, scenes, issued, scan, interval, storeVars, moreVars, lightVars, monVars>>

\* The awaited SetDeviceState call returns (with or without an error).
CommandCompletes(out) ==
    /\ act.pc = "running"
    /\ act.todo # <<>>
    /\ ~act.blocked
    /\ LET d == Head(act.todo)
       IN  effects' = Append(effects,
                             EvSet(d, act.devs[d], SetDeviceState(d, act.devs[d], out).err))
    /\ act' = [act EXCEPT !.todo = Tail(@)]
    /\ UNCHANGED <<lateVars, scenes, issued, activeScene, sceneCall, scan, interval, storeVars, moreVars,
                   lightVars, monVars>>

\* The device does not answer: the call stays blocked on the network.
CommandBlocks ==
    /\ act.pc = "running"
    /\ act.todo # <<>>
    /\ ~act.blocked
    /\ ~act.ctxDone
    /\ controllerFor(Head(act.todo)).err = ""
    /\ act' = [act EXCEPT !.blocked = TRUE]
    /\ UNCHANGED <<lateVars, scan, interval, storeVars, moreVars, sceneVars, lightVars, monVars>>

\* The context is cancelled under a blocked call: it returns an error.
CommandCancelled ==
    /\ act.pc = "running"
    /\ act.blocked
    /\ act.ctxDone
    /\ LET d == Head(act.todo)
       IN  effects' = Append(effects, EvSet(d, act.devs[d], "ProtocolError"))
    /\ act' = [act EXCEPT !.todo = Tail(@), !.blocked = FALSE]
    /\ UNCHANGED <<lateVars, scenes, issued, activeScene, sceneCall, scan, interval, storeVars, moreVars,
                   lightVars, monVars>>

\* The deadline of the activation's context passes, if it has one.
ActDeadline ==
    /\ act.pc = "running"
    /\ act.bounded
    /\ ~act.ctxDone
    /\ act' = [act EXCEPT !.ctxDone = TRUE]
    /\ UNCHANGED <<lateVars, scan, interval, storeVars, moreVars, sceneVars, lightVars, monVars>>

\* The fan-out loop is over: ActivateScene returns nil.
ActivationReturns ==
    /\ act.pc = "running"
    /\ act.todo = <<>>
    /\ act' = [act EXCEPT !.pc = "returned"]
    /\ UNCHANGED <<lateVars, scan, interval, storeVars, moreVars, sceneVars, lightVars, monVars>>

\* ------------------------------------------ Hue: colour temperature scale
\* Go's int division truncates; the operands here are positive.
kelvinToMirek(kelvin) ==
    LET k == IF kelvin < 2000 THEN 2000 ELSE IF kelvin > 6535 THEN 6535 ELSE kelvin
    IN  1000000 \div k

mirekToKelvin(mirek) == IF mirek <= 0 THEN 4000 ELSE 1000000 \div mirek

KelvinInputs == {2700, 4000, 6500} \cup {1900 + 50 * i : i \in 0..94}
NoConv == [op |-> "", kelvin |-> 0, mirek |-> 0, read |-> 0]

\* HueController.SetState with a Kelvin value: the bridge receives the mirek.
HueSetKelvin(k) ==
    /\ conv' = [op |-> "set", kelvin |-> k, mirek |-> kelvinToMirek(k), read |-> 0]
    /\ UNCHANGED <<lateVars, lifx, govee, scannerVars, ui, interval, storeVars, taskVars,
                   sceneVars, lightVars, monVars>>

\* HueController.GetState: the bridge's mirek is read back as Kelvin.
HueGetKelvin ==
    /\ conv.op = "set"
    /\ conv' = [conv EXCEPT !.op = "get", !.read = mirekToKelvin(conv.mirek)]
    /\ UNCHANGED <<lateVars, lifx, govee, scannerVars, ui, interval, storeVars, taskVars,
                   sceneVars, lightVars, monVars>>

\* --------------------------------------------------- Scanner: the phases
\* Scanner.ScanAll phase by phase.  The SSDP and cloud workers of
\* DiscoverHueBridges, and later the probe goroutines, report bridge
\* addresses through addBridge in any interleaving.
ElgatoAddrs == {"e1"}
BridgeIPs == {"ip1", "ip2"}
CheapWorkers == {"ssdp", "cloud"}
ProbeWorkers == {"probe1", "probe2"}
HueWorkers == CheapWorkers \cup ProbeWorkers

\* The name a worker gives a bridge it reports.
BridgeName(w) == IF w = "cloud" THEN "Hue Bridge (id)" ELSE "Hue Bridge"

\* What a worker may report: SSDP skips addresses it has seen itself, the
\* cloud answer is a list, a probe goroutine reports its one host or nothing.
Reports(w) ==
    IF w = "ssdp"
    THEN {l \in SeqsUpTo(BridgeIPs, 2) : \A i, j \in 1..Len(l) : l[i] = l[j] => i = j}
    ELSE IF w = "cloud" THEN SeqsUpTo(BridgeIPs, 2)
    ELSE SeqsUpTo(BridgeIPs, 1)

NoReports == [w \in HueWorkers |-> <<>>]
NoHScan == [pc |-> "idle", mdnsFound |-> 0, elgatoProbed |-> FALSE, elgatoAddrs |-> {},
            todo |-> NoReports, reportedBy |-> [w \in HueWorkers |-> {}],
            seen |-> {}, bridges |-> <<>>, hueProbed |-> FALSE,
            registered |-> {}, queried |-> {}]

\* Mutant: the Elgato subnet probe runs whatever mDNS found.
ElgatoFallback_always(mdnsFound) == TRUE

\* ScanAll: the Elgato subnet probe is needed.
ElgatoFallback(mdnsFound) == mdnsFound = 0

\* DiscoverHueBridges: the Hue subnet probe is needed.
HueFallback(found) == found = 0

\* Mutant: addBridge appends without looking at seen.
addBridge_noSeen(sc, ip, name) ==
    [sc EXCEPT !.seen = @ \cup {ip}, !.bridges = Append(@, [IP |-> ip, Name |-> name])]

\* The addBridge closure, under its mutex.
addBridge(sc, ip, name) ==
    IF ip \in sc.seen THEN sc
    ELSE [sc EXCEPT !.seen = @ \cup {ip},
                    !.bridges = Append(@, [IP |-> ip, Name |-> name])]

\* ScanAll up to the start of DiscoverHueBridges: the mDNS query, the
\* subnet probe if mDNS found nothing, then the two Hue workers start.
ElgatoPhase(mdns, probed, ssdp, cloud) ==
    /\ hscan.pc \in {"idle", "done"}
    /\ hscan' = [NoHScan EXCEPT
                    !.pc = "hue",
                    !.registered = hscan.registered,
                    !.mdnsFound = Cardinality(mdns),
                    !.elgatoProbed = ElgatoFallback(Cardinality(mdns)),
                    !.elgatoAddrs = hscan.elgatoAddrs \cup mdns \cup
                        (IF ElgatoFallback(Cardinality(mdns)) THEN probed ELSE {}),
                    !.todo = [NoReports EXCEPT !["ssdp"] = ssdp, !["cloud"] = cloud]]
    /\ UNCHANGED <<lateVars, probe, ctrlVars, ui, interval, storeVars, taskVars, sceneVars,
                   lightVars, monVars>>

\* A worker reports its next address.
ReportBridge(w) ==
    /\ hscan.pc \in {"hue", "hueProbe"}
    /\ hscan.todo[w] # <<>>
    /\ hscan' = [addBridge(hscan, Head(hscan.todo[w]), BridgeName(w)) EXCEPT
                    !.todo[w] = Tail(@),
                    !.reportedBy[w] = @ \cup {Head(hscan.todo[w])}]
    /\ UNCHANGED <<lateVars, probe, ctrlVars, ui, interval, storeVars, taskVars, sceneVars,
                   lightVars, monVars>>

\* wg.Wait() of DiscoverHueBridges returns: fall back to the probe, or
\* return the bridges to ScanAll, which starts its final phase.
HueWorkersDone(p1, p2) ==
    /\ hscan.pc = "hue"
    /\ \A w \in CheapWorkers : hscan.todo[w] = <<>>
    /\ hscan' = IF HueFallback(Len(hscan.bridges))
                 THEN [hscan EXCEPT !.pc = "hueProbe", !.hueProbed = TRUE,
                                    !.todo["probe1"] = p1, !.todo["probe2"] = p2]
                 ELSE [hscan EXCEPT !.pc = "lights"]
    /\ UNCHANGED <<lateVars, probe, ctrlVars, ui, interval, storeVars, taskVars, sceneVars,
                   lightVars, monVars>>

\* wg.Wait() of discoverHueViaProbe returns.
HueProbeDone ==
    /\ hscan.pc = "hueProbe"
    /\ \A w \in ProbeWorkers : hscan.todo[w] = <<>>
    /\ hscan' = [hscan EXCEPT !.pc = "lights"]
    /\ UNCHANGED <<lateVars, probe, ctrlVars, ui, interval, storeVars, taskVars, sceneVars,
                   lightVars, monVars>>

\* The final phase: DiscoverAllWithProgress; HueController.Discover queries
\* the bridges in c.bridges.
LightsPhase ==
    /\ hscan.pc = "lights"
    /\ hscan' = [hscan EXCEPT !.pc = "done", !.queried = hscan.registered]
    /\ UNCHANGED <<lateVars, probe, ctrlVars, ui, interval, storeVars, taskVars, sceneVars,
                   lightVars, monVars>>

\* App.AddHueBridge, after the user paired the bridge: HueController.AddBridge.
AddHueBridge(ip) ==
    /\ hscan' = [hscan EXCEPT !.registered = @ \cup {ip}]
    /\ UNCHANGED <<lateVars, probe, ctrlVars, ui, interval, storeVars, taskVars, sceneVars,
                   lightVars, monVars>>

\* ------------------------------------------------ LIFX controller: commands
\* LIFXController.lights: the identities with a cached device handle.
LifxIDs == {LifxDev, LifxDev2}
LifxOps == {"SetState", "TurnOn", "TurnOff"}

\* What the network does during one command: the devices that answer the
\* discovery run by getLight and the one run after a failed Dial, and
\* whether each Dial, SetLightPower and SetColor succeeds.
LifxEnvs ==
    [found1 : SUBSET LifxIDs, dial1 : BOOLEAN, found2 : SUBSET LifxIDs,
     dial2 : BOOLEAN, power : BOOLEAN, color : BOOLEAN]

NoLifx == [lights |-> {}, op |-> "", id |-> <<>>, log |-> <<>>, err |-> ""]

Step(c, what, e) == [c EXCEPT !.log = Append(@, what), !.err = e]

\* Discover adds every answering device to the cache; rediscoverDevice then
\* looks the wanted one up.
rediscoverDevice(c, deviceID, found) ==
    LET d == [c EXCEPT !.lights = @ \cup found]
    IN  Step(d, "discover", IF deviceID \in d.lights THEN "" ELSE "not found")

getLight(c, deviceID, found) ==
    IF deviceID \in c.lights THEN c ELSE rediscoverDevice(c, deviceID, found)

Dial(c, ok) == Step(c, IF ok THEN "dial" ELSE "dial failed", IF ok THEN "" ELSE "dial")

\* The head shared by SetState and setPower: getLight, Dial and, when Dial
\* fails, re-discovery and a second Dial.
dialWithRediscovery(c, deviceID, env) ==
    LET c1 == getLight(c, deviceID, env.found1)
    IN  IF c1.err # "" THEN c1
        ELSE LET c2 == Dial(c1, env.dial1)
             IN  IF c2.err = "" THEN c2
                 ELSE LET c3 == rediscoverDevice(c2, deviceID, env.found2)
                      IN  IF c3.err # "" THEN c3 ELSE Dial(c3, env.dial2)

SetLightPower(c, ok) ==
    Step(c, IF ok THEN "power" ELSE "power failed", IF ok THEN "" ELSE "send")

SetColor(c, ok) ==
    Step(c, IF ok THEN "color" ELSE "color failed", IF ok THEN "" ELSE "send")

setPower(c, deviceID, env) ==
    LET c1 == dialWithRediscovery(c, deviceID, env)
    IN  IF c1.err # "" THEN c1 ELSE SetLightPower(c1, env.power)

LIFXSetState(c, deviceID, on, env) ==
    LET c1 == dialWithRediscovery(c, deviceID, env)
    IN  IF c1.err # "" THEN c1
        ELSE LET c2 == SetLightPower(c1, env.power)
             IN  IF ~on \/ c2.err # "" THEN c2 ELSE SetColor(c2, env.color)

\* One command on the LIFX controller.
LIFXCommand(op, deviceID, on, env) ==
    LET c == [lifx EXCEPT !.op = op, !.id = deviceID, !.log = <<>>, !.err = ""]
    IN  /\ lifx' = IF op = "SetState" THEN LIFXSetState(c, deviceID, on, env)
                   ELSE setPower(c, deviceID, env)
        /\ UNCHANGED <<lateVars, conv, govee, scannerVars, ui, interval, storeVars, taskVars,
                       sceneVars, lightVars, monVars>>

\* ------------------------------------------- Govee controller: the listener
\* Goroutines that may be inside GoveeController.Discover at the same time.
GoveeCallers == {"g1", "g2", "g3"}
GoveeIPs == {"10.0.0.7", "10.0.0.8"}

\* started and deviceMap are the controller's fields; starts counts the
\* invocations of the listener's Start, entered says that some Discover has
\* passed ensureStarted, closed that Close has run (App.shutdown).
NoGovee ==
    [started |-> FALSE, deviceMap |-> {}, starts |-> 0, entered |-> FALSE,
     closed |-> FALSE, pc |-> [c \in GoveeCallers |-> "idle"]]

\* ensureStarted, one critical section of c.mu.
ensureStarted(g) ==
    IF g.started THEN g
    ELSE [g EXCEPT !.starts = @ + 1, !.started = TRUE]

\* Discover up to its settle delay.
GoveeDiscoverBegins(c) ==
    /\ govee.pc[c] = "idle"
    /\ govee' = [ensureStarted(govee) EXCEPT !.entered = TRUE, !.pc[c] = "sleeping"]
    /\ UNCHANGED <<lateVars, conv, lifx, scannerVars, ui, interval, storeVars, taskVars,
                   sceneVars, lightVars, monVars>>

\* Discover after the delay: the listener's devices are entered in deviceMap.
GoveeDiscoverReturns(c, found) ==
    /\ govee.pc[c] = "sleeping"
    /\ govee' = [govee EXCEPT !.deviceMap = @ \cup found, !.pc[c] = "idle"]
    /\ UNCHANGED <<lateVars, conv, lifx, scannerVars, ui, interval, storeVars, taskVars,
                   sceneVars, lightVars, monVars>>

\* Close, called once by App.shutdown; calls in flight are not waited for.
GoveeClose ==
    /\ ~govee.closed
    /\ govee' = [govee EXCEPT !.started = FALSE, !.closed = TRUE]
    /\ UNCHANGED <<lateVars, conv, lifx, scannerVars, ui, interval, storeVars, taskVars,
                   sceneVars, lightVars, monVars>>

\* ------------------------------------------------- Scanner: subnet probes
\* The most local /24 subnets getLocalSubnets returns.
MaxSubnets == 2

ElgatoSem == 50
HueSem == 80
HostsPerSubnet == 254

ProbeKinds == {"elgato", "hue"}
SemSize(kind) == IF kind = "elgato" THEN ElgatoSem ELSE HueSem

\* pos counts the hosts the loops have passed, over all subnets; inflight the
\* goroutines that hold a slot of sem (spawned, their deferred release not
\* yet run).
NoProbe ==
    [pc |-> "idle", kind |-> "", subnets |-> 0, pos |-> 0, inflight |-> 0,
     cancelled |-> FALSE]

Hosts(p) == p.subnets * HostsPerSubnet

\* Mutant: the send on sem never blocks.
CanAcquire_always(held, size) == TRUE

\* sem <- struct{}{} proceeds while the channel's buffer has room.
CanAcquire(held, size) == held < size

probeUnchanged ==
    UNCHANGED <<lateVars, hscan, ctrlVars, ui, interval, storeVars, taskVars, sceneVars,
                lightVars, monVars>>

\* discoverElgatoViaProbe / discoverHueViaProbe is entered with n subnets.
ProbeStart(kind, n) ==
    /\ probe.pc \in {"idle", "done"}
    /\ probe' = [pc |-> IF n = 0 THEN "done" ELSE "check", kind |-> kind,
                 subnets |-> n, pos |-> 0, inflight |-> 0, cancelled |-> FALSE]
    /\ probeUnchanged

\* The head of the inner loop: the end of the ranges, or ctx.Err() != nil
\* (break: the rest of this subnet is skipped), or on to wg.Add and the send.
ProbeCheck ==
    /\ probe.pc = "check"
    /\ probe' =
         IF probe.pos = Hosts(probe) THEN [probe EXCEPT !.pc = "wait"]
         ELSE IF probe.cancelled
              THEN [probe EXCEPT !.pos = ((@ \div HostsPerSubnet) + 1) * HostsPerSubnet]
              ELSE [probe EXCEPT !.pc = "acquire"]
    /\ probeUnchanged

\* sem <- struct{}{}; go func(addr) {...}(ip)
ProbeSpawn ==
    /\ probe.pc = "acquire"
    /\ CanAcquire(probe.inflight, SemSize(probe.kind))
    /\ probe' = [probe EXCEPT !.pc = "check", !.pos = @ + 1, !.inflight = @ + 1]
    /\ probeUnchanged

\* A goroutine's probe ends and its deferred <-sem runs.
ProbeHostDone ==
    /\ probe.inflight > 0
    /\ probe' = [probe EXCEPT !.inflight = @ - 1]
    /\ probeUnchanged

\* The scan's context is cancelled or times out.
ProbeCancel ==
    /\ probe.pc \in {"check", "acquire"}
    /\ ~probe.cancelled
    /\ probe' = [probe EXCEPT !.cancelled = TRUE]
    /\ probeUnchanged

\* wg.Wait() returns.
ProbeReturns ==
    /\ probe.pc = "wait"
    /\ probe.inflight = 0
    /\ probe' = [probe EXCEPT !.pc = "done"]
    /\ probeUnchanged

\* ------------------------------------------------ UI store: debounced sends
MaxChanges == 4
MaxClock == 160

SEND_DEBOUNCE_MS == 80

UIDevices == {"elgato:a", "hue:b"}
Setters == {"setBrightness", "setKelvin", "setTemperature", "setColor"}

\* Milliseconds that may pass between two events of the page.
Delays == {40, 80}

\* now is the page's clock; changes the calls of the setters, in order, each
\* with the time it was made; sendTimers the timer handle kept per device (0:
\* none yet; a handle is the number of the change that made it); pending the
\* timers set and neither fired nor cleared; sent the SetLightState calls,
\* each with the change whose closure made it.
NoUI ==
    [now |-> 0, changes |-> <<>>, sendTimers |-> [d \in UIDevices |-> 0],
     pending |-> {}, sent |-> <<>>]

clearTimeout(pending, handle) == {t \in pending : t.handle # handle}

setTimeout(pending, handle, deviceId, due) ==
    pending \cup {[handle |-> handle, dev |-> deviceId, due |-> due]}

\* Mutant: the timer of the device's previous change is left running.
scheduleSend_noClear(u, deviceId, handle) ==
    [u EXCEPT !.pending = setTimeout(@, handle, deviceId, u.now + SEND_DEBOUNCE_MS),
              !.sendTimers[deviceId] = handle]

scheduleSend(u, deviceId, handle) ==
    [u EXCEPT !.pending = setTimeout(clearTimeout(@, u.sendTimers[deviceId]),
                                     handle, deviceId, u.now + SEND_DEBOUNCE_MS),
              !.sendTimers[deviceId] = handle]

uiUnchanged ==
    UNCHANGED <<lateVars, ctrlVars, scannerVars, interval, storeVars, taskVars, sceneVars,
                lightVars, monVars>>

\* setBrightness / setKelvin / setTemperature / setColor: the change is
\* applied to the store and its send is scheduled.
UserChange(setter, deviceId) ==
    /\ Len(ui.changes) < MaxChanges
    /\ LET n == Len(ui.changes) + 1
           u == [ui EXCEPT !.changes =
                     Append(@, [dev |-> deviceId, setter |-> setter, at |-> ui.now])]
       IN  ui' = scheduleSend(u, deviceId, n)
    /\ uiUnchanged

\* A timer runs its callback, no earlier than its delay: SetLightState is
\* called with the state built by the closure of change t.handle.
TimerFires(t) ==
    /\ t \in ui.pending
    /\ t.due <= ui.now
    /\ ui' = [ui EXCEPT !.pending = @ \ {t},
                        !.sent = Append(@, [dev |-> t.dev, change |-> t.handle,
                                            seen |-> Len(ui.changes)])]
    /\ uiUnchanged

\* Time passes.
ClockAdvances(d) ==
    /\ ui.now + d <= MaxClock
    /\ ui' = [ui EXCEPT !.now = @ + d]
    /\ uiUnchanged

\* ------------------------------------------- webcam Monitor: the interval
MaxSets == 3

\* Goroutines calling Monitor.SetInterval, and the durations they pass (ms).
IntervalSetters == {"s1", "s2"}
IntervalValues == {100, 500, 2000}

\* pc is the position of the Start loop, period the period of its ticker,
\* resetCh the number of signals buffered in m.resetCh (capacity 1), setPc the
\* position of each SetInterval call, sets the number of calls made.
NoTicker ==
    [pc |-> "select", period |-> StartupInterval(DefaultPollMs), resetCh |-> 0,
     setPc |-> [c \in IntervalSetters |-> "idle"], sets |-> 0]

tickerUnchanged == UNCHANGED <<oldVars, lk, elgato, creators, overlap, pairing, cb>>

\* SetInterval, the locked section: m.interval = d.
SetIntervalWrite(c, d) ==
    /\ ticker.setPc[c] = "idle"
    /\ ticker.sets < MaxSets
    /\ interval' = SetInterval(d)
    /\ ticker' = [ticker EXCEPT !.setPc[c] = "signal", !.sets = @ + 1]
    /\ UNCHANGED <<sceneVars, lightVars, monVars, storeVars, taskVars, moreVars,
                   lk, elgato, creators, overlap, pairing, cb>>

\* select { case m.resetCh <- struct{}{}: default: }
SignalReset(t) == IF t.resetCh = 0 THEN [t EXCEPT !.resetCh = 1] ELSE t

\* SetInterval, the non-blocking send, and return.
SetIntervalSignal(c) ==
    /\ ticker.setPc[c] = "signal"
    /\ ticker' = [SignalReset(ticker) EXCEPT !.setPc[c] = "idle"]
    /\ tickerUnchanged

\* The loop's select takes case <-m.resetCh.
LoopReceivesReset ==
    /\ ticker.pc = "select"
    /\ ticker.resetCh = 1
    /\ ticker' = [ticker EXCEPT !.pc = "reset", !.resetCh = 0]
    /\ tickerUnchanged

\* newInterval := m.interval; ticker.Reset(newInterval)
LoopResetsTicker ==
    /\ ticker.pc = "reset"
    /\ ticker' = [ticker EXCEPT !.pc = "select", !.period = interval]
    /\ tickerUnchanged

\* The loop's select takes case <-ticker.C: the tick branch runs the probe
\* and, on a change, the handler, inside the loop's goroutine.
LoopTakesTick ==
    /\ ticker.pc = "select"
    /\ ticker' = [ticker EXCEPT !.pc = "tick"]
    /\ tickerUnchanged

LoopTickReturns ==
    /\ ticker.pc = "tick"
    /\ ticker' = [ticker EXCEPT !.pc = "select"]
    /\ tickerUnchanged

\* The handler (OnCameraStateChange with the application context, which has
\* no deadline) waits for a device command that never returns.
HandlerBlocks ==
    /\ ticker.pc = "tick"
    /\ ticker' = [ticker EXCEPT !.pc = "blocked"]
    /\ tickerUnchanged

\* ------------------------------------- the registry and active-scene locks
\* Goroutines: one in DiscoverAllWithProgress, two in ActivateScene (a manual
\* and a sensor-triggered activation), one in SetDeviceRoom.
Activators == {"manual", "sensor"}
LockProcs == {"scan", "room"} \cup Activators

\* For each RWMutex its writer ("" when free) and its readers; the position
\* of every goroutine.
NoLocks ==
    [regW |-> "", regR |-> {}, actW |-> "", actR |-> {},
     pc |-> [p \in LockProcs |-> "idle"]]

lkUnchanged == UNCHANGED <<oldVars, ticker, elgato, creators, overlap, pairing, cb>>

CanLock(w, r) == w = "" /\ r = {}
CanRLock(w) == w = ""

\* DiscoverAllWithProgress: the controllers are copied under the read lock.
ScanCopiesControllers ==
    /\ lk.pc["scan"] = "idle"
    /\ CanRLock(lk.regW)
    /\ lk' = [lk EXCEPT !.regR = @ \cup {"scan"}, !.pc["scan"] = "copy"]
    /\ lkUnchanged

\* m.mu.RUnlock(); the goroutines are started: the Discover calls are in
\* flight.
ScanStartsDiscover ==
    /\ lk.pc["scan"] = "copy"
    /\ lk' = [lk EXCEPT !.regR = @ \ {"scan"}, !.pc["scan"] = "discover"]
    /\ lkUnchanged

\* wg.Wait() returns.
ScanDiscoverDone ==
    /\ lk.pc["scan"] = "discover"
    /\ lk' = [lk EXCEPT !.pc["scan"] = "wait"]
    /\ lkUnchanged

\* m.mu.Lock(): the merge into m.devices.
ScanLocksRegistry ==
    /\ lk.pc["scan"] = "wait"
    /\ CanLock(lk.regW, lk.regR)
    /\ lk' = [lk EXCEPT !.regW = "scan", !.pc["scan"] = "merge"]
    /\ lkUnchanged

ScanUnlocksRegistry ==
    /\ lk.pc["scan"] = "merge"
    /\ lk' = [lk EXCEPT !.regW = "", !.pc["scan"] = "idle"]
    /\ lkUnchanged

\* SetDeviceRoom: lock, mutate, unlock.
RoomLocks ==
    /\ lk.pc["room"] = "idle"
    /\ CanLock(lk.regW, lk.regR)
    /\ lk' = [lk EXCEPT !.regW = "room", !.pc["room"] = "mutate"]
    /\ lkUnchanged

RoomUnlocks ==
    /\ lk.pc["room"] = "mutate"
    /\ lk' = [lk EXCEPT !.regW = "", !.pc["room"] = "idle"]
    /\ lkUnchanged

\* ActivateScene: m.mu.Lock() of the Scene Manager.
ActivatorLocks(p) ==
    /\ lk.pc[p] = "idle"
    /\ CanLock(lk.actW, lk.actR)
    /\ lk' = [lk EXCEPT !.actW = p, !.pc[p] = "set"]
    /\ lkUnchanged

\* Mutant: the unlock is deferred to the end of ActivateScene.
ActivatorUnlocks_deferred(p) ==
    /\ lk.pc[p] = "set"
    /\ lk' = [lk EXCEPT !.pc[p] = "notify"]
    /\ lkUnchanged

\* m.activeScene = id; fn := m.onChange; m.mu.Unlock()
ActivatorUnlocks(p) ==
    /\ lk.pc[p] = "set"
    /\ lk' = [lk EXCEPT !.actW = "", !.pc[p] = "notify"]
    /\ lkUnchanged

\* fn(scene)
ActivatorNotifies(p) ==
    /\ lk.pc[p] = "notify"
    /\ lk' = [lk EXCEPT !.pc[p] = "route"]
    /\ lkUnchanged

\* SetDeviceState: controllerFor reads the controller under the registry's
\* read lock, which GetController releases on return; then the controller
\* call is in flight.
ActivatorSendsCommand(p) ==
    /\ lk.pc[p] = "route"
    /\ CanRLock(lk.regW)
    /\ lk' = [lk EXCEPT !.pc[p] = "command"]
    /\ lkUnchanged

\* The controller call returns: on to the next device, or the end.
ActivatorCommandDone(p, more) ==
    /\ lk.pc[p] = "command"
    /\ lk' = [lk EXCEPT !.pc[p] = IF more THEN "route" ELSE "idle",
                        !.actW = IF ~more /\ @ = p THEN "" ELSE @]
    /\ lkUnchanged

\* ------------------------------------------- Elgato controller: SetState
\* DeviceState.Brightness (a float, 0..1) in thousandths p, or NaN;
\* DeviceState.Kelvin: a nil pointer, or the value k.
BrightnessInputs ==
    {[nan |-> FALSE, p |-> x] :
        x \in {0 - 250, 0 - 5, 0, 4, 5, 14, 25, 29, 30, 34, 35, 500, 994, 995, 1000,
               1004, 1005, 2500}}
    \cup {[nan |-> TRUE, p |-> 0]}
NilKelvin == [nil |-> TRUE, k |-> 0]
ElgatoKelvins ==
    {NilKelvin} \cup
    {[nil |-> FALSE, k |-> x] : x \in {0 - 1, 0, 2899, 2900, 4000, 7000, 7001, 9000}}

\* int(NaN) is implementation-dependent: the Go ports give the least int, 0
\* or the greatest int (here the least and greatest of 32-bit integers).
NaNAsInt == {0 - 2147483647, 0, 2147483647}

\* math.Round of thousandths / 10: to the nearest, halves away from zero.
Round(p) == IF p >= 0 THEN (p + 5) \div 10 ELSE 0 - ((5 - p) \div 10)

NoElgato ==
    [op |-> "", on |-> FALSE, brightness |-> [nan |-> FALSE, p |-> 0],
     kelvin |-> NilKelvin, sent |-> <<>>,
     err |-> ""]

\* Mutant: the floor of 3 is left out.
Light_noFloor(on, b, kelvin) ==
    LET t0 == IF kelvin.nil THEN 4000 ELSE kelvin.k
        t1 == IF t0 < 2900 THEN 2900 ELSE t0
        t2 == IF t1 > 7000 THEN 7000 ELSE t1
        b2 == IF b > 100 THEN 100 ELSE b
    IN  [On |-> on, Brightness |-> b2, Temperature |-> t2]

\* The keylight.Light SetState builds, b being int(math.Round(Brightness*100)).
Light(on, b, kelvin) ==
    LET t0 == IF kelvin.nil THEN 4000 ELSE kelvin.k
        t1 == IF t0 < 2900 THEN 2900 ELSE t0
        t2 == IF t1 > 7000 THEN 7000 ELSE t1
        b1 == IF b < 3 THEN 3 ELSE b
        b2 == IF b1 > 100 THEN 100 ELSE b1
    IN  [On |-> on, Brightness |-> b2, Temperature |-> t2]

\* How a SetState call can go: no client for the device, the first SetLights
\* succeeds, it fails and reconnect fails, or the second SetLights is made.
ElgatoOutcomes == {"no client", "sent", "reconnect failed", "retried", "retry failed"}

\* ElgatoController.SetState: no client, or SetLights and, when it fails, a
\* reconnect and the same lights sent once more.
ElgatoSetState(on, brightness, kelvin, outcome) ==
    LET known == outcome # "no client"
        firstOk == outcome = "sent"
        reconnected == outcome \in {"retried", "retry failed"}
        secondOk == outcome = "retried"
    IN
    /\ \E b \in (IF brightness.nan THEN NaNAsInt ELSE {Round(brightness.p)}) :
          LET ll == Light(on, b, kelvin)
          IN  elgato' =
                [op |-> "SetState", on |-> on, brightness |-> brightness,
                 kelvin |-> kelvin,
                 sent |-> IF ~known THEN <<>>
                          ELSE IF firstOk \/ ~reconnected THEN <<ll>>
                          ELSE <<ll, ll>>,
                 err |-> IF ~known THEN "not connected"
                         ELSE IF firstOk THEN ""
                         ELSE IF ~reconnected THEN "reconnect"
                         ELSE IF secondOk THEN "" ELSE "ProtocolError"]
    /\ UNCHANGED <<oldVars, ticker, lk, creators, overlap, pairing, cb>>

\* -------------------------------- Scene Manager: concurrent create / update
\* Goroutines in CreateScene or UpdateScene (each bound call runs in its own).
SceneCallers == {"a", "b"}
RaceTriggers == {"", "camera_on"}

\* Per caller: position, the scene it is about to store, the result.
IdleCreator == [pc |-> "idle", op |-> "", scene |-> NoScene, err |-> ""]
NoCreators == [c \in SceneCallers |-> IdleCreator]

creatorsUnchanged ==
    UNCHANGED <<activeScene, sceneCall, effects, lightVars, monVars, restVars,
                ticker, lk, elgato, overlap, pairing, cb>>

\* CreateScene up to the call of UpsertScene: triggerInUse reads the list
\* under the store's read lock, then the scene is built with a new id.
CreateChecks(c, trigger) ==
    /\ creators[c].pc = "idle"
    /\ UUIDs \ issued # {}
    /\ IF triggerInUse(trigger, "")
       THEN /\ creators' = [creators EXCEPT ![c] =
                   [pc |-> "done", op |-> "CreateScene",
                    scene |-> [NoScene EXCEPT !.Trigger = trigger], err |-> "Conflict"]]
            /\ UNCHANGED issued
       ELSE /\ creators' = [creators EXCEPT ![c] =
                   [pc |-> "upsert", op |-> "CreateScene",
                    scene |-> [ID |-> NewUUID, Trigger |-> trigger, Devices |-> EmptyMap],
                    err |-> ""]]
            /\ issued' = issued \cup {NewUUID}
    /\ UNCHANGED scenes
    /\ creatorsUnchanged

\* UpdateScene of a stored scene, up to the call of UpsertScene.
UpdateChecks(c, i, trigger) ==
    /\ creators[c].pc = "idle"
    /\ i \in 1..Len(scenes)
    /\ LET scene == [scenes[i] EXCEPT !.Trigger = trigger]
       IN  creators' = [creators EXCEPT ![c] =
               IF triggerInUse(scene.Trigger, scene.ID)
               THEN [pc |-> "done", op |-> "UpdateScene", scene |-> scene,
                     err |-> "Conflict"]
               ELSE [pc |-> "upsert", op |-> "UpdateScene", scene |-> scene, err |-> ""]]
    /\ UNCHANGED <<scenes, issued>>
    /\ creatorsUnchanged

\* Store.UpsertScene, under the store's write lock.
CallerUpserts(c) ==
    /\ creators[c].pc = "upsert"
    /\ (\E i \in 1..Len(scenes) : scenes[i].ID = creators[c].scene.ID)
          \/ Len(scenes) < MaxScenes
    /\ scenes' = UpsertScene(creators[c].scene)
    /\ creators' = [creators EXCEPT ![c].pc = "done"]
    /\ UNCHANGED issued
    /\ creatorsUnchanged

\* The call returns.
CallerReturns(c) ==
    /\ creators[c].pc = "done"
    /\ creators' = [creators EXCEPT ![c] = IdleCreator]
    /\ UNCHANGED <<scenes, issued>>
    /\ creatorsUnchanged

\* ------------------------------------ Scene Manager: overlapping activations
MaxActivations == 3

\* Per goroutine in ActivateScene: position and the scene it activates; the
\* order of the writes of activeScene and the order of the onChange calls.
NoOverlap ==
    [pc |-> [p \in Activators |-> "idle"], id |-> [p \in Activators |-> ""],
     written |-> <<>>, notified |-> <<>>]

overlapUnchanged ==
    UNCHANGED <<scenes, issued, sceneCall, effects, lightVars, monVars, restVars,
                ticker, lk, elgato, creators, pairing, cb>>

\* Manager.GetActiveScene: the field, read under the read lock.
GetActiveScene == activeScene

\* scene, err := m.GetScene(id); a missing scene returns at once.
ActivateGetsScene(p, id) ==
    /\ overlap.pc[p] = "idle"
    /\ Len(overlap.written) < MaxActivations
    /\ GetScene(id).ok
    /\ overlap' = [overlap EXCEPT !.pc[p] = "lock", !.id[p] = id]
    /\ UNCHANGED activeScene
    /\ overlapUnchanged

\* m.mu.Lock(); m.activeScene = id; fn := m.onChange; m.mu.Unlock()
ActivateWrites(p) ==
    /\ overlap.pc[p] = "lock"
    /\ activeScene' = overlap.id[p]
    /\ overlap' = [overlap EXCEPT !.pc[p] = "notify",
                                  !.written = Append(@, overlap.id[p])]
    /\ overlapUnchanged

\* fn(scene), after the lock is released: the scene:active event.
ActivateNotifies(p) ==
    /\ overlap.pc[p] = "notify"
    /\ overlap' = [overlap EXCEPT !.pc[p] = "commands",
                                  !.notified = Append(@, overlap.id[p])]
    /\ UNCHANGED activeScene
    /\ overlapUnchanged

\* The device commands are sent and ActivateScene returns.
ActivateReturns(p) ==
    /\ overlap.pc[p] = "commands"
    /\ overlap' = [overlap EXCEPT !.pc[p] = "idle"]
    /\ UNCHANGED activeScene
    /\ overlapUnchanged

\* --------------------------------------------- App: pairing of Hue bridges
MaxBridges == 3

\* Goroutines in AddHueBridge (PairHueBridge calls it after a successful
\* pairing) and the credential each one adds.
PairCallers == {"p1", "p2"}
PairBridges == {"bridge1", "bridge2"}

\* Per caller: position, its credential, the list it read and extended, the
\* bytes it marshalled; the credentials whose call returned nil; the file.
NoPairing ==
    [pc |-> [c \in PairCallers |-> "idle"], cred |-> [c \in PairCallers |-> ""],
     bridges |-> [c \in PairCallers |-> <<>>], data |-> [c \in PairCallers |-> <<>>],
     added |-> {}, disk |-> <<>>]

pairingUnchanged ==
    UNCHANGED <<sceneVars, lightVars, monVars, arrays, sceneSlice, settings,
                storeDevices, file, writers, writes, writeErr, snap, interval,
                taskVars, moreVars, ticker, lk, elgato, creators, overlap, cb>>

\* The elements of a list.
Elements(seq) == {seq[i] : i \in 1..Len(seq)}

\* a.hueCtrl.AddBridge, then bridges := a.store.GetHueBridges().
AddReadsBridges(c, b, ok) ==
    /\ pairing.pc[c] = "idle"
    /\ Len(hueBridges) < MaxBridges
    /\ pairing' = IF ok
                  THEN [pairing EXCEPT !.pc[c] = "read", !.cred[c] = b,
                                       !.bridges[c] = hueBridges]
                  ELSE pairing
    /\ UNCHANGED hueBridges
    /\ pairingUnchanged

\* bridges = append(bridges, ...); Store.SetHueBridges up to its Unlock.
AddSetsBridges(c) ==
    /\ pairing.pc[c] = "read"
    /\ hueBridges' = Append(pairing.bridges[c], pairing.cred[c])
    /\ pairing' = [pairing EXCEPT !.pc[c] = "set"]
    /\ pairingUnchanged

\* Store.save: the config is marshalled under the read lock.
AddMarshals(c) ==
    /\ pairing.pc[c] = "set"
    /\ pairing' = [pairing EXCEPT !.pc[c] = "marshalled", !.data[c] = hueBridges]
    /\ UNCHANGED hueBridges
    /\ pairingUnchanged

\* Store.save: os.WriteFile, then AddHueBridge returns nil.
AddWritesFile(c) ==
    /\ pairing.pc[c] = "marshalled"
    /\ pairing' = [pairing EXCEPT !.pc[c] = "idle", !.disk = pairing.data[c],
                                  !.added = @ \cup {pairing.cred[c]}]
    /\ UNCHANGED hueBridges
    /\ pairingUnchanged

\* --------------------------------- Device Manager: discovery with progress
MaxFound == 2

\* Controllers whose Discover runs in a goroutine of DiscoverAllWithProgress.
ScanControllers == {"lifx", "hue", "elgato"}

\* The scan: its position; per goroutine its position, the number of devices
\* its controller returned, whether it failed, and the total it read inside
\* the callback; the holder of the local mutex; len(allDevices), len(errs);
\* the scanner's totalFound; len of the slice returned.
NoCallbacks ==
    [pc |-> "idle", g |-> [c \in ScanControllers |-> "none"],
     devices |-> [c \in ScanControllers |-> 0],
     err |-> [c \in ScanControllers |-> FALSE],
     read |-> [c \in ScanControllers |-> 0],
     mu |-> "", allDevices |-> 0, errs |-> 0, totalFound |-> 0, returned |-> 0]

cbUnchanged ==
    UNCHANGED <<oldVars, ticker, lk, elgato, creators, overlap, pairing>>

\* The goroutines are started, one per controller.
ProgressScanStarts ==
    /\ cb.pc = "idle"
    /\ cb' = [cb EXCEPT !.pc = "wait", !.g = [c \in ScanControllers |-> "discover"]]
    /\ cbUnchanged

\* devices, err := ctrl.Discover(ctx)
ControllerDiscovers(c, n, err) ==
    /\ cb.g[c] = "discover"
    /\ cb' = [cb EXCEPT !.g[c] = "lock", !.devices[c] = IF err THEN 0 ELSE n,
                        !.err[c] = err]
    /\ cbUnchanged

\* Mutant: the goroutine does not wait for the mutex.
GoroutineLocks_noWait(c) ==
    /\ cb.g[c] = "lock"
    /\ cb' = [cb EXCEPT !.g[c] = "locked", !.mu = c]
    /\ cbUnchanged

\* mu.Lock()
GoroutineLocks(c) ==
    /\ cb.g[c] = "lock"
    /\ cb.mu = ""
    /\ cb' = [cb EXCEPT !.g[c] = "locked", !.mu = c]
    /\ cbUnchanged

\* The error is recorded, or the devices are appended and, when there are
\* some, onDevices is entered.
GoroutineAppends(c) ==
    /\ cb.g[c] = "locked"
    /\ cb' = IF cb.err[c]
             THEN [cb EXCEPT !.g[c] = "unlock", !.errs = @ + 1]
             ELSE [cb EXCEPT !.g[c] = IF cb.devices[c] > 0 THEN "callback" ELSE "unlock",
                             !.allDevices = @ + cb.devices[c]]
    /\ cbUnchanged

\* The scanner's callback, totalFound += len(newDevices): the read.
CallbackReadsTotal(c) ==
    /\ cb.g[c] = "callback"
    /\ cb' = [cb EXCEPT !.g[c] = "adding", !.read[c] = cb.totalFound]
    /\ cbUnchanged

\* The write of totalFound and the progress event; the callback returns.
CallbackWritesTotal(c) ==
    /\ cb.g[c] = "adding"
    /\ cb' = [cb EXCEPT !.g[c] = "unlock", !.totalFound = cb.read[c] + cb.devices[c]]
    /\ cbUnchanged

\* The deferred mu.Unlock() and wg.Done().
GoroutineUnlocks(c) ==
    /\ cb.g[c] = "unlock"
    /\ cb' = [cb EXCEPT !.g[c] = "done", !.mu = ""]
    /\ cbUnchanged

\* wg.Wait() is over: the merge, and the slice (nil when every controller
\* failed) goes back to the scanner.
ProgressScanReturns ==
    /\ cb.pc = "wait"
    /\ \A c \in ScanControllers : cb.g[c] = "done"
    /\ cb' = [cb EXCEPT !.pc = "returned",
                        !.returned = IF cb.errs > 0 /\ cb.allDevices = 0
                                     THEN 0 ELSE cb.allDevices]
    /\ cbUnchanged

\* ------------------------------------------------------------ initial state
\* The state App.startup leaves with an empty config file.
Init ==
    /\ scenes = <<>>
    /\ issued = {}
    /\ activeScene = ""
    /\ sceneCall = NoSceneCall
    /\ effects = <<>>
    /\ controllers = StartupBrands
    /\ devices = NoDevices
    /\ devCall = NoDevCall
    /\ discovery = NoDiscovery
    /\ active = FALSE
    /\ enabled = TRUE
    /\ loopPc = "idle"
    /\ loopCameraOn = FALSE
    /\ checkPc = "idle"
    /\ checkCameraOn = FALSE
    /\ handlerCalls = <<>>
    /\ ticks = <<>>
    /\ checks = 0
    /\ interval = StartupInterval(DefaultPollMs)
    /\ arrays = <<>>
    /\ sceneSlice = NilSlice
    /\ settings = DefaultPollMs
    /\ storeDevices = <<>>
    /\ hueBridges = <<>>
    /\ file = NoFile
    /\ writers = [w \in Writers |-> IdleWriter]
    /\ writes = 0
    /\ writeErr = FALSE
    /\ snap = NoSnap
    /\ scan = NoScan
    /\ act = NoAct
    /\ conv = NoConv
    /\ lifx = NoLifx
    /\ govee = NoGovee
    /\ hscan = NoHScan
    /\ probe = NoProbe
    /\ ui = NoUI
    /\ ticker = NoTicker
    /\ lk = NoLocks
    /\ elgato = NoElgato
    /\ creators = NoCreators
    /\ overlap = NoOverlap
    /\ pairing = NoPairing
    /\ cb = NoCallbacks

\* ------------------------------------------------ Scene Manager behaviours
SceneNext ==
    \/ \E t \in Triggers, d \in SceneDeviceMaps : CreateScene(t, d)
    \/ \E id \in SceneIDs, t \in Triggers, d \in SceneDeviceMaps :
         UpdateScene([ID |-> id, Trigger |-> t, Devices |-> d])
    \/ \E id \in SceneIDs : DeleteScene(id)
    \/ \E id \in SceneIDs : ActivateScene(id)
    \/ \E b \in BOOLEAN : OnCameraStateChange(b)

SceneSpec == Init /\ [][SceneNext]_vars

\* ------------------------------------------------ Device Manager behaviours
RouteNext ==
    \E op \in ManagerOps, id \in DeviceIDs, st \in DeviceStates, out \in Outcomes :
        DeviceCommand(op, id, st, out)

RouteSpec == Init /\ [][RouteNext]_vars

RegistryNext ==
    \/ DiscoverAll
    \/ \E id \in RegistryIDs, room \in Rooms : SetDeviceRoom(id, room)
    \/ \E id \in RegistryIDs : RemoveDevice(id)

RegistrySpec == Init /\ [][RegistryNext]_vars

\* ------------------------------------------------------ Monitor behaviours
MonitorNext ==
    \/ TickProbe
    \/ TickCommit
    \/ CheckNowProbe
    \/ CheckNowCommit
    \/ \E e \in BOOLEAN : SetEnabled(e)

MonitorSpec == Init /\ [][MonitorNext]_vars

\* ---------------------------------------------- behaviours with deadlines
ScanNext ==
    \/ StartDiscoverAll
    \/ \E b \in StartupBrands, r \in UNION {AllResults[x] : x \in StartupBrands} :
         DiscoverReturns(b, r)
    \/ \E b \in StartupBrands, c \in BOOLEAN : DiscoverBlocks(b, c)
    \/ \E b \in StartupBrands, r \in CancelledResults : DiscoverCancelled(b, r)
    \/ ScanDeadline
    \/ WaitReturns

\* Every goroutine that can take a step takes it, and timers fire.
ScanSpec ==
    /\ Init
    /\ [][ScanNext]_vars
    /\ WF_vars(\E b \in StartupBrands, r \in UNION {AllResults[x] : x \in StartupBrands} :
                   DiscoverReturns(b, r))
    /\ WF_vars(\E b \in StartupBrands, r \in CancelledResults : DiscoverCancelled(b, r))
    /\ WF_vars(ScanDeadline)
    /\ WF_vars(WaitReturns)

ActivationNext ==
    \/ \E t \in Triggers, d \in SceneDeviceMaps : CreateScene(t, d)
    \/ \E id \in SceneIDs : AppActivateScene(id)
    \/ \E b \in BOOLEAN : CameraHandler(b)
    \/ \E out \in Outcomes : CommandCompletes(out)
    \/ CommandBlocks
    \/ CommandCancelled
    \/ ActDeadline
    \/ ActivationReturns

ActivationSpec ==
    /\ Init
    /\ [][ActivationNext]_vars
    /\ WF_vars(\E out \in Outcomes : CommandCompletes(out))
    /\ WF_vars(CommandCancelled)
    /\ WF_vars(ActDeadline)
    /\ WF_vars(ActivationReturns)

\* ----------------------------------------------- Hue controller behaviours
ConvertNext ==
    \/ \E k \in KelvinInputs : HueSetKelvin(k)
    \/ HueGetKelvin

ConvertSpec == Init /\ [][ConvertNext]_vars

\* ---------------------------------------------- LIFX controller behaviours
LIFXNext ==
    \E op \in LifxOps, id \in LifxIDs, on \in BOOLEAN, env \in LifxEnvs :
        LIFXCommand(op, id, on, env)

LIFXSpec == Init /\ [][LIFXNext]_vars

\* --------------------------------------------- Govee controller behaviours
GoveeNext ==
    \/ \E c \in GoveeCallers : GoveeDiscoverBegins(c)
    \/ \E c \in GoveeCallers, found \in SUBSET GoveeIPs : GoveeDiscoverReturns(c, found)
    \/ GoveeClose

GoveeSpec == Init /\ [][GoveeNext]_vars

\* ------------------------------------------------ Subnet probe behaviours
ProbeNext ==
    \/ \E kind \in ProbeKinds, n \in 0..MaxSubnets : ProbeStart(kind, n)
    \/ ProbeCheck
    \/ ProbeSpawn
    \/ ProbeHostDone
    \/ ProbeCancel
    \/ ProbeReturns

ProbeSpec == Init /\ [][ProbeNext]_vars

\* The dispatcher and the workers are goroutines the runtime keeps running,
\* and a host probe ends within its client's timeout.
ProbeFairSpec ==
    /\ ProbeSpec
    /\ WF_vars(ProbeCheck) /\ WF_vars(ProbeSpawn)
    /\ WF_vars(ProbeHostDone) /\ WF_vars(ProbeReturns)

\* ------------------------------------------------------ UI store behaviours
UINext ==
    \/ \E setter \in Setters, d \in UIDevices : UserChange(setter, d)
    \/ \E t \in ui.pending : TimerFires(t)
    \/ \E d \in Delays : ClockAdvances(d)

UISpec == Init /\ [][UINext]_vars

\* ------------------------------------------- Monitor interval behaviours
IntervalNext ==
    \/ \E c \in IntervalSetters, d \in IntervalValues : SetIntervalWrite(c, d)
    \/ \E c \in IntervalSetters : SetIntervalSignal(c)
    \/ LoopReceivesReset
    \/ LoopResetsTicker
    \/ LoopTakesTick
    \/ LoopTickReturns
    \/ HandlerBlocks

\* Every goroutine that can take a step takes it, and a select with several
\* ready cases does not leave one of them out for ever.
IntervalSpec ==
    /\ Init
    /\ [][IntervalNext]_vars
    /\ WF_vars(\E c \in IntervalSetters : SetIntervalSignal(c))
    /\ SF_vars(LoopReceivesReset)
    /\ WF_vars(LoopResetsTicker)
    /\ WF_vars(LoopTickReturns)

\* ------------------------------------------------------- Lock behaviours
LockNext ==
    \/ ScanCopiesControllers
    \/ ScanStartsDiscover
    \/ ScanDiscoverDone
    \/ ScanLocksRegistry
    \/ ScanUnlocksRegistry
    \/ RoomLocks
    \/ RoomUnlocks
    \/ \E p \in Activators : ActivatorLocks(p)
    \/ \E p \in Activators : ActivatorUnlocks(p)
    \/ \E p \in Activators : ActivatorNotifies(p)
    \/ \E p \in Activators : ActivatorSendsCommand(p)
    \/ \E p \in Activators, more \in BOOLEAN : ActivatorCommandDone(p, more)

LockSpec == Init /\ [][LockNext]_vars

\* -------------------------------------------- Elgato controller behaviours
ElgatoNext ==
    \E on \in BOOLEAN, b \in BrightnessInputs, k \in ElgatoKelvins,
       outcome \in ElgatoOutcomes :
        ElgatoSetState(on, b, k, outcome)

ElgatoSpec == Init /\ [][ElgatoNext]_vars

\* ------------------------------------------ concurrent scene calls
SceneRaceNext ==
    \/ \E c \in SceneCallers, t \in RaceTriggers : CreateChecks(c, t)
    \/ \E c \in SceneCallers, i \in 1..MaxScenes, t \in RaceTriggers :
          UpdateChecks(c, i, t)
    \/ \E c \in SceneCallers : CallerUpserts(c)
    \/ \E c \in SceneCallers : CallerReturns(c)

SceneRaceSpec == Init /\ [][SceneRaceNext]_vars

\* ------------------------------------------ overlapping activations
OverlapNext ==
    \/ \E t \in Triggers, d \in SceneDeviceMaps : CreateScene(t, d)
    \/ \E p \in Activators, id \in SceneIDs : ActivateGetsScene(p, id)
    \/ \E p \in Activators : ActivateWrites(p)
    \/ \E p \in Activators : ActivateNotifies(p)
    \/ \E p \in Activators : ActivateReturns(p)

OverlapSpec == Init /\ [][OverlapNext]_vars

\* ------------------------------------------------ overlapping pairings
PairingNext ==
    \/ \E c \in PairCallers, b \in PairBridges, ok \in BOOLEAN :
          AddReadsBridges(c, b, ok)
    \/ \E c \in PairCallers : AddSetsBridges(c)
    \/ \E c \in PairCallers : AddMarshals(c)
    \/ \E c \in PairCallers : AddWritesFile(c)

PairingSpec == Init /\ [][PairingNext]_vars

\* ------------------------------------------------ discovery with progress
CallbackNext ==
    \/ ProgressScanStarts
    \/ \E c \in ScanControllers, n \in 0..MaxFound, err \in BOOLEAN :
          ControllerDiscovers(c, n, err)
    \/ \E c \in ScanControllers : GoroutineLocks(c)
    \/ \E c \in ScanControllers : GoroutineAppends(c)
    \/ \E c \in ScanControllers : CallbackReadsTotal(c)
    \/ \E c \in ScanControllers : CallbackWritesTotal(c)
    \/ \E c \in ScanControllers : GoroutineUnlocks(c)
    \/ ProgressScanReturns

CallbackSpec == Init /\ [][CallbackNext]_vars

\* ------------------------------------------------------ Scanner behaviours
ScannerNext ==
    \/ \E mdns \in SUBSET ElgatoAddrs, probed \in SUBSET ElgatoAddrs,
          ssdp \in Reports("ssdp"), cloud \in Reports("cloud") :
            ElgatoPhase(mdns, probed, ssdp, cloud)
    \/ \E w \in HueWorkers : ReportBridge(w)
    \/ \E p1 \in Reports("probe1"), p2 \in Reports("probe2") : HueWorkersDone(p1, p2)
    \/ HueProbeDone
    \/ LightsPhase
    \/ \E ip \in BridgeIPs : AddHueBridge(ip)

ScannerSpec == Init /\ [][ScannerNext]_vars

\* -------------------------------------------------------- Store behaviours
StoreNext ==
    \/ \E w \in Writers, scene \in StoreScenes : UpsertSceneLocked(w, scene)
    \/ \E w \in Writers, id \in UUIDs : DeleteSceneLocked(w, id)
    \/ \E w \in Writers, devs \in StoreDeviceLists : SetDevicesLocked(w, devs)
    \/ \E w \in Writers, b \in BridgeLists : SetHueBridgesLocked(w, b)
    \/ \E w \in Writers, ms \in PollValues : UpdateSettings(w, ms)
    \/ \E w \in Writers : SaveMarshal(w)
    \/ \E w \in Writers, ok \in BOOLEAN : SaveWrite(w, ok)
    \/ GetScenesCall
    \/ Restart

StoreSpec == Init /\ [][StoreNext]_vars

\* ====================================================== Scene Manager claims
StoredIDs == {scenes[i].ID : i \in 1..Len(scenes)}
WithTrigger(list, t) == {i \in 1..Len(list) : list[i].Trigger = t}
EffectsOfKind(k) == {i \in 1..Len(effects) : effects[i].kind = k}

\* C1: after any sequence of CreateScene, UpdateScene and DeleteScene calls
\* from a store that satisfies it, at most one stored scene has trigger
\* camera_on and at most one has trigger camera_off.
C1_AtMostOnePerTrigger ==
    \A t \in {"camera_on", "camera_off"} : Cardinality(WithTrigger(scenes, t)) <= 1

\* C2: CreateScene / UpdateScene are rejected with Conflict exactly when the
\* target trigger is non-empty and a stored scene with a different identity
\* already has it (a created scene's identity is new, so every stored scene
\* differs from it); a rejected call leaves the scene list unchanged.
C2_ConflictExactly ==
    [][ /\ sceneCall'.op = "CreateScene" =>
             (sceneCall'.err = "Conflict" <=>
                 /\ sceneCall'.trigger # ""
                 /\ WithTrigger(scenes, sceneCall'.trigger) # {})
        /\ sceneCall'.op = "UpdateScene" =>
             (sceneCall'.err = "Conflict" <=>
                 /\ sceneCall'.trigger # ""
                 /\ \E i \in WithTrigger(scenes, sceneCall'.trigger) :
                        scenes[i].ID # sceneCall'.id)
        /\ sceneCall'.op \in {"CreateScene", "UpdateScene"}
             /\ sceneCall'.err = "Conflict" => scenes' = scenes
      ]_vars

\* C3: ActivateScene with an identity that matches no stored scene returns
\* NotFound, emits no notification, sends no device command and leaves the
\* active scene unchanged.
C3_UnknownSceneNoEffect ==
    [][ sceneCall'.op = "ActivateScene" /\ sceneCall'.id \notin StoredIDs =>
          /\ sceneCall'.err = "NotFound"
          /\ effects' = <<>>
          /\ activeScene' = activeScene
      ]_vars

C3_Witness ==
    /\ sceneCall.op = "ActivateScene"
    /\ sceneCall.err = "NotFound"
    /\ activeScene # ""
    /\ activeScene \in StoredIDs

C5_BestEffortFanOut ==
    sceneCall.op = "ActivateScene" =>
        \A i \in 1..Len(scenes) :
            scenes[i].ID = sceneCall.id =>
                /\ sceneCall.err = ""
                /\ \A d \in DOMAIN scenes[i].Devices :
                       \E k \in EffectsOfKind("set") :
                           /\ effects[k].deviceID = d
                           /\ effects[k].state = scenes[i].Devices[d]
                           /\ \A m \in EffectsOfKind("set") :
                                  effects[m].deviceID = d => m = k
                /\ \A k \in EffectsOfKind("set") :
                       effects[k].deviceID \in DOMAIN scenes[i].Devices

\* Three devices, one of them failing, the other two applied.
C5_Witness ==
    /\ sceneCall.op = "ActivateScene"
    /\ sceneCall.err = ""
    /\ \E k \in EffectsOfKind("set") :
           /\ effects[k].deviceID = LifxDev
           /\ effects[k].err = "ProtocolError"
           /\ \A m \in EffectsOfKind("set") : m # k => effects[m].err = "" /\ m > k
    /\ Cardinality(EffectsOfKind("set")) = 3

\* C6: OnCameraStateChange(true) activates the first stored scene, in store
\* order, whose trigger is camera_on, OnCameraStateChange(false) the first
\* whose trigger is camera_off, and only that one; with no such scene there
\* is no notification, no device command and the active scene is unchanged.
C6_FirstMatchingTrigger ==
    [][ sceneCall'.op = "OnCameraStateChange" =>
          LET t == IF sceneCall'.cameraOn THEN "camera_on" ELSE "camera_off"
              m == WithTrigger(scenes, t)
          IN  IF m = {}
              THEN effects' = <<>> /\ activeScene' = activeScene
              ELSE LET first == CHOOSE i \in m : \A j \in m : i <= j
                   IN  /\ Len(effects') >= 2
                       /\ effects'[1] = EvActive(scenes[first].ID)
                       /\ effects'[2] = EvNotify(scenes[first])
                       /\ \A k \in 3..Len(effects') :
                              /\ effects'[k].kind = "set"
                              /\ effects'[k].deviceID \in DOMAIN scenes[first].Devices
                       /\ Len(effects') = 2 + Cardinality(DOMAIN scenes[first].Devices)
                       /\ activeScene' = scenes[first].ID
      ]_vars

C6_Witness ==
    /\ sceneCall.op = "OnCameraStateChange"
    /\ ~sceneCall.cameraOn
    /\ Len(scenes) = 2
    /\ scenes[1].Trigger = "camera_on"
    /\ scenes[2].Trigger = "camera_off"
    /\ activeScene = scenes[2].ID
    /\ Len(effects) > 2

\* ============================================================ Monitor claims
HandlerValues == [i \in 1..Len(handlerCalls) |-> handlerCalls[i].value]

\* The probe results of the ticks the loop has finished.
DoneProbes ==
    LET n == IF loopPc = "probed" THEN Len(ticks) - 1 ELSE Len(ticks)
    IN  [i \in 1..n |-> ticks[i].probe]

RECURSIVE Edges(_, _)
\* The values of `seq` that differ from their predecessor, `prev` being the
\* predecessor of the first.
Edges(prev, seq) ==
    IF seq = <<>> THEN <<>>
    ELSE (IF Head(seq) # prev THEN <<Head(seq)>> ELSE <<>>) \o Edges(Head(seq), Tail(seq))

OnlyEnabledTicks ==
    /\ checks = 0
    /\ \A i \in 1..Len(ticks) : ticks[i].enabled

\* C7: with monitoring enabled and the last observed value initially false,
\* the loop invokes the handler exactly once at each tick whose probe result
\* differs from the last observed value (the previous tick's result), with
\* the new value, and at no other tick; the probes F,F,T,T,F give exactly
\* the invocations T, F.
C7_EdgeTriggered ==
    OnlyEnabledTicks =>
        /\ HandlerValues = Edges(FALSE, DoneProbes)
        /\ DoneProbes = <<FALSE, FALSE, TRUE, TRUE, FALSE>> =>
               HandlerValues = <<TRUE, FALSE>>

C7_Witness ==
    /\ OnlyEnabledTicks
    /\ DoneProbes = <<FALSE, FALSE, TRUE, TRUE, FALSE>>
    /\ Len(handlerCalls) = 2

\* C8 (as claimed): in any interleaving of ticks and CheckNow calls, two
\* consecutive handler invocations never carry the same value.
C8_NeverSameTwice ==
    \A i \in 1..(Len(handlerCalls) - 1) :
        handlerCalls[i].value # handlerCalls[i + 1].value

\* C8 (amended): two consecutive handler invocations never carry the same
\* value unless a CheckNow call stored a value between them.
C8_AlternateUnlessCheckNow ==
    \A i \in 1..(Len(handlerCalls) - 1) :
        handlerCalls[i].checks = handlerCalls[i + 1].checks =>
            handlerCalls[i].value # handlerCalls[i + 1].value

C8_Witness ==
    /\ Len(handlerCalls) >= 3
    /\ handlerCalls[1].checks = 0
    /\ handlerCalls[2].checks = 1
    /\ handlerCalls[3].checks = 1
    /\ handlerCalls[1].value = handlerCalls[2].value

\* ===================================================== Device Manager claims
MethodOf(op) ==
    CASE op = "SetDeviceState" -> "SetState"
      [] op = "GetDeviceState" -> "GetState"
      [] op = "TurnOn" -> "TurnOn"
      [] OTHER -> "TurnOff"

\* The positions of the first ":" of an identity (none or one).
FirstColon(id) == {k \in 1..Len(id) : id[k] = ":" /\ \A j \in 1..(k - 1) : id[j] # ":"}

\* C9: a command on identity brand:localID invokes the controller registered
\* for the text before the first ":" and no other; with no controller
\* registered for it, or no ":" in the identity, it returns NotFound and
\* invokes no controller.
C9_RoutesByBrandTag ==
    devCall.op \in ManagerOps =>
        IF \E k \in FirstColon(devCall.id) : SubSeq(devCall.id, 1, k - 1) \in controllers
        THEN \E k \in FirstColon(devCall.id) :
                 devCall.invoked = <<[ctrl |-> SubSeq(devCall.id, 1, k - 1),
                                      method |-> MethodOf(devCall.op),
                                      id |-> devCall.id]>>
        ELSE devCall.invoked = <<>> /\ devCall.err = "NotFound"

\* An identity whose local id contains the delimiter is routed by its first
\* ":".
C9_Witness ==
    /\ devCall.op = "TurnOff"
    /\ devCall.id = <<"hue", ":", ":">>
    /\ Len(devCall.invoked) = 1
    /\ devCall.invoked[1].ctrl = BrandHue

\* C10: when discoverAll returns a device whose identity is already in the
\* registry with a room label, the registry entry keeps that room label and
\* takes its other fields from the rediscovered device.
C10_RoomSurvivesRediscovery ==
    [][ devCall'.op = "DiscoverAll" =>
          \A id \in DOMAIN devices :
              (devices[id].Room # ""
                 /\ \E i \in 1..Len(discovery'.devices) : discovery'.devices[i].ID = id)
              => /\ id \in DOMAIN devices'
                 /\ devices'[id].Room = devices[id].Room
                 /\ \E i \in 1..Len(discovery'.devices) :
                        /\ discovery'.devices[i].ID = id
                        /\ devices'[id].ID = id
                        /\ devices'[id].Name = discovery'.devices[i].Name
      ]_vars

C10_Witness ==
    /\ devCall.op = "DiscoverAll"
    /\ \E i \in 1..Len(discovery.devices) :
           /\ discovery.devices[i].ID = LifxDev
           /\ discovery.devices[i].Room = ""
           /\ discovery.devices[i].Name = "n2"
    /\ LifxDev \in DOMAIN devices
    /\ devices[LifxDev].Room = "office"
    /\ devices[LifxDev].Name = "n2"

\* ========================================================= discovery claims
\* The brands whose Discover returned an error, and the identities the
\* controllers reported, in a run with controller results res.
FailedBrands(res) == {b \in DOMAIN res : res[b].err}
FoundSlots(res) ==
    {p \in (DOMAIN res) \X (1..MaxIdLen) : p[2] <= Len(res[p[1]].devices)}
FoundIDs(res) == {res[p[1]].devices[p[2]].ID : p \in FoundSlots(res)}

\* C11: discoverAll reports a hard failure (an error and no devices) exactly
\* when the controllers found zero devices in total and at least one of them
\* returned an error; in every other case it returns every device found and
\* no hard failure.
C11_HardFailureExactly ==
    discovery.ran =>
        /\ discovery.failed <=>
               (FoundSlots(discovery.res) = {} /\ FailedBrands(discovery.res) # {})
        /\ discovery.failed => discovery.devices = <<>>
        /\ ~discovery.failed =>
               /\ Len(discovery.devices) = Cardinality(FoundSlots(discovery.res))
               /\ \A p \in FoundSlots(discovery.res) :
                      \E i \in 1..Len(discovery.devices) :
                          discovery.devices[i] = discovery.res[p[1]].devices[p[2]]

C11_Witness ==
    /\ discovery.ran
    /\ discovery.failed
    /\ FailedBrands(discovery.res) = {BrandLIFX}
    /\ discovery.res[BrandHue].devices = <<>>

\* C14: when discoverAll found at least one device and at least one
\* controller errored, the scan result holds the partial device list and an
\* error string naming every failed brand.
C14_PartialListsEveryFailedBrand ==
    (discovery.ran /\ FoundSlots(discovery.res) # {}
                   /\ FailedBrands(discovery.res) # {})
    => /\ Len(discovery.devices) = Cardinality(FoundSlots(discovery.res))
       /\ \A b \in FailedBrands(discovery.res) :
              \E i \in 1..Len(discovery.errors) :
                  \E k \in 1..Len(discovery.errors[i]) : discovery.errors[i][k] = b

\* C15: discoverAll only adds or updates registry entries: the identities
\* after a run are the previous ones united with the ones found, so a run
\* that finds only known hardware leaves the identity set as it was; an
\* identity leaves the registry only in a RemoveDevice step.
C15_DiscoveryOnlyAdds ==
    [][ /\ devCall'.op = "DiscoverAll" =>
              /\ DOMAIN devices' = DOMAIN devices \cup FoundIDs(discovery'.res)
              /\ FoundIDs(discovery'.res) \subseteq DOMAIN devices
                    => DOMAIN devices' = DOMAIN devices
        /\ DOMAIN devices \ DOMAIN devices' # {} => devCall'.op = "RemoveDevice"
      ]_vars

C15_Witness ==
    /\ devCall.op = "DiscoverAll"
    /\ FoundIDs(discovery.res) = {LifxDev}
    /\ DOMAIN devices = {LifxDev, HueDev}

\* ================================================== scene lifecycle claims
\* C16: deleting the active scene clears the active scene id (GetActiveScene
\* then returns the empty string) and emits a scene:active event with an
\* empty value, so the active scene id is never that of a deleted scene.
C16_DeleteClearsActive ==
    [][ (sceneCall'.op = "DeleteScene" /\ activeScene # ""
            /\ sceneCall'.id = activeScene /\ activeScene \in StoredIDs)
        => /\ activeScene' = ""
           /\ \E i \in 1..Len(effects') :
                  effects'[i].kind = "notify" /\ effects'[i].sceneID = ""
      ]_vars

\* C17: UpdateScene with an id that matches no stored scene returns an error
\* and leaves the stored scene list unchanged.
C17_UpdateUnknownRejected ==
    [][ (sceneCall'.op = "UpdateScene" /\ sceneCall'.id \notin StoredIDs)
        => sceneCall'.err # "" /\ scenes' = scenes
      ]_vars

\* ============================================================ store claims
\* The abstract scene list is what the slice header shows.
SceneListIsSliceView == scenes = SliceView(arrays, sceneSlice)

\* C18: after startup and after any sequence of UpdateSettings calls the
\* monitor's polling interval is never below 500 ms (smaller values of
\* pollIntervalMs are rounded up).
C18_IntervalAtLeastMinimum == interval >= MinPollMs

\* C19: once every store write call has returned (none failed on I/O), the
\* content of the config file equals the in-memory config.
C19_FileEqualsMemory ==
    ((\A w \in Writers : writers[w].pc = "idle") /\ writes > 0 /\ ~writeErr)
    => file = Marshal

\* C20: a scene list obtained from GetScenes is a snapshot: later store
\* writes do not change its contents.
C20_SnapshotUnchanged ==
    snap.taken => SliceView(arrays, snap.slice) = snap.orig

\* ========================================================= deadline claims
\* C12: a discovery run in which a controller's Discover never returns still
\* completes once the outer deadline has expired.
C12_CompletesAfterDeadline ==
    (scan.pc = "waiting" /\ scan.ctxDone) ~> (scan.pc = "returned")

\* The run does complete after the deadline when no Discover call ignores
\* its context.
ScanCompletesUnlessHung ==
    (scan.pc = "waiting" /\ scan.ctxDone) ~> (scan.pc = "returned" \/ scan.hung # {})

\* C13: every scene activation, manual or started by a sensor transition,
\* returns even when a device command never completes by itself.
C13_ActivationReturns ==
    (act.pc = "running") ~> (act.pc = "returned")

\* An activation App.ActivateScene started does return.
ManualActivationReturns ==
    (act.pc = "running" /\ act.bounded) ~> (act.pc = "returned")

\* ======================================================= controller claims
Abs(n) == IF n < 0 THEN 0 - n ELSE n

\* C21: for K in {2700, 4000, 6500}, converting K to mirek and back gives a
\* value within 1 of K.
C21_KelvinRoundTrip ==
    (conv.op = "get" /\ conv.kelvin \in {2700, 4000, 6500})
    => Abs(conv.read - conv.kelvin) <= 1

\* ========================================================== scanner claims
BridgeAddrs(sc) == {sc.bridges[i].IP : i \in 1..Len(sc.bridges)}

\* C22: the Elgato subnet probe runs only if mDNS found no device, and the
\* Hue subnet probe only if neither SSDP nor the cloud lookup found a bridge.
C22_ProbeOnlyAsFallback ==
    /\ hscan.elgatoProbed => hscan.mdnsFound = 0
    /\ hscan.hueProbed =>
           hscan.reportedBy["ssdp"] \cup hscan.reportedBy["cloud"] = {}

C22_Witness ==
    /\ hscan.pc = "done"
    /\ hscan.mdnsFound > 0 /\ ~hscan.elgatoProbed
    /\ hscan.hueProbed /\ hscan.reportedBy["probe1"] # {}

\* C23: when ScanAll starts its final phase, every bridge the bridge phase
\* of this scan found is registered with the Hue controller.
C23_FoundBridgesRegistered ==
    hscan.pc = "lights" => BridgeAddrs(hscan) \subseteq hscan.registered

\* C30: DiscoverHueBridges returns no two bridges with the same address and
\* returns every address some worker reported, whatever the interleaving.
C30_BridgesDistinctAndComplete ==
    /\ \A i, j \in 1..Len(hscan.bridges) :
           hscan.bridges[i].IP = hscan.bridges[j].IP => i = j
    /\ hscan.pc \in {"lights", "done"} =>
           BridgeAddrs(hscan) = UNION {hscan.reportedBy[w] : w \in HueWorkers}

C30_Witness ==
    /\ hscan.pc = "lights"
    /\ hscan.reportedBy["ssdp"] = {"ip1", "ip2"}
    /\ hscan.reportedBy["cloud"] = {"ip1"}
    /\ Len(hscan.bridges) = 2
    /\ hscan.bridges[1] = [IP |-> "ip1", Name |-> "Hue Bridge (id)"]

\* C24: in the final phase exactly one scan-progress notification is emitted
\* for every controller whose discovery completes (returns without error),
\* carrying the devices that controller returned.
C24_OneNotificationPerController ==
    discovery.ran =>
        LET done == DOMAIN discovery.res \ FailedBrands(discovery.res)
        IN  /\ Len(discovery.progress) = Cardinality(done)
            /\ \A b \in done :
                   \E i \in 1..Len(discovery.progress) :
                       discovery.progress[i] = discovery.res[b].devices

\* C26: a Manager command that finds a controller invokes that controller's
\* method exactly once and returns the value and the error of that call
\* unchanged; a failed call is not repeated.
C26_OneCallResultUnchanged ==
    (devCall.op \in ManagerOps /\ devCall.answer.reached) =>
        /\ Len(devCall.invoked) = 1
        /\ devCall.invoked[1].method = MethodOf(devCall.op)
        /\ devCall.err = devCall.answer.err
        /\ devCall.result = devCall.answer.state

\* A failed GetDeviceState and a successful one that returns a state.
C26_Witness ==
    /\ devCall.op = "GetDeviceState"
    /\ devCall.answer.reached
    /\ devCall.answer.err = "ProtocolError"
    /\ Len(devCall.invoked) = 1

\* The number of entries of a command's log that are one of `whats`.
Count(log, whats) == Cardinality({i \in 1..Len(log) : log[i] \in whats})

\* C27: when a send of a LIFX command fails, discovery is re-run once and the
\* command is sent once more before the error is returned; within one command
\* discovery runs at most once and no message is sent more than twice.
C27_RediscoverAndRetryOnce ==
    lifx.op # "" =>
        /\ Count(lifx.log, {"discover"}) <= 1
        /\ Count(lifx.log, {"power", "power failed"}) <= 2
        /\ Count(lifx.log, {"color", "color failed"}) <= 2
        /\ Count(lifx.log, {"dial", "dial failed"}) <= 2
        /\ Count(lifx.log, {"power failed"}) >= 1 =>
               /\ Count(lifx.log, {"discover"}) = 1
               /\ Count(lifx.log, {"power", "power failed"}) = 2
        /\ Count(lifx.log, {"color failed"}) >= 1 =>
               /\ Count(lifx.log, {"discover"}) = 1
               /\ Count(lifx.log, {"color", "color failed"}) = 2

\* What the code does keep: at most two discoveries and two Dials, and each
\* message sent at most once.
LifxAttemptsBounded ==
    /\ Count(lifx.log, {"discover"}) <= 2
    /\ Count(lifx.log, {"dial", "dial failed"}) <= 2
    /\ Count(lifx.log, {"power", "power failed"}) <= 1
    /\ Count(lifx.log, {"color", "color failed"}) <= 1

\* A send fails after the handle was looked up and dialled without trouble.
SendFailsWithoutRetry ==
    /\ lifx.op = "TurnOn"
    /\ lifx.log = <<"dial", "power failed">>
    /\ lifx.err = "send"

\* A device missing from the cache whose first Dial fails.
TwoDiscoveriesInOneCommand ==
    /\ lifx.op = "TurnOn"
    /\ lifx.log = <<"discover", "dial failed", "discover", "dial", "power">>

\* C28: for any number and interleaving of Discover calls the listener's
\* Start has been invoked exactly once as soon as one Discover has run, and
\* never before.
C28_ListenerStartedOnce ==
    govee.starts = IF govee.entered THEN 1 ELSE 0

\* Until Close runs, concurrent Discover calls start the listener once.
StartedOnceUntilClosed ==
    /\ ~govee.closed => govee.starts = IF govee.entered THEN 1 ELSE 0
    /\ govee.starts <= 2

\* Three Discover calls in flight at once, the listener started once.
ConcurrentDiscoversOneStart ==
    /\ \A c \in GoveeCallers : govee.pc[c] = "sleeping"
    /\ govee.starts = 1

\* C29: at every moment of a subnet probe at most 50 (Elgato) or 80 (Hue)
\* host probes are in flight, over all subnets being scanned.
C29_InFlightWithinSemaphore ==
    /\ probe.kind = "elgato" => probe.inflight <= 50
    /\ probe.kind = "hue" => probe.inflight <= 80

\* The Hue probe holds all 80 slots while it is in its second subnet, with
\* hosts still to come.
C29_Witness ==
    /\ probe.kind = "hue"
    /\ probe.subnets = 2
    /\ probe.inflight = 80
    /\ probe.pos > HostsPerSubnet
    /\ probe.pc = "acquire"

\* The changes made to device d, and those among the first n.
ChangesOf(d) == {i \in 1..Len(ui.changes) : ui.changes[i].dev = d}
SendsOf(i) == {k \in 1..Len(ui.sent) : ui.sent[k].change = i}
IsLatest(i, d, n) == \A j \in ChangesOf(d) : j <= n => j <= i

\* C25: per device, a change followed less than 80 ms later by another change
\* of the same device is never sent; every SetLightState call carries the
\* device's latest change and no change is sent twice; the latest change of
\* every device is either sent or still pending, whatever was scheduled for
\* other devices.
C25_DebouncedPerDevice ==
    \A d \in UIDevices :
        /\ \A i \in ChangesOf(d) :
               /\ Cardinality(SendsOf(i)) <= 1
               /\ \A k \in SendsOf(i) :
                      ui.sent[k].dev = d /\ IsLatest(i, d, ui.sent[k].seen)
               /\ (\E j \in ChangesOf(d) :
                       j > i /\ ui.changes[j].at - ui.changes[i].at < 80)
                    => SendsOf(i) = {}
        /\ \A i \in ChangesOf(d) :
               IsLatest(i, d, Len(ui.changes)) =>
                   \/ Cardinality(SendsOf(i)) = 1 /\ \A t \in ui.pending : t.dev # d
                   \/ /\ SendsOf(i) = {}
                      /\ {t \in ui.pending : t.dev = d} =
                             {[handle |-> i, dev |-> d, due |-> ui.changes[i].at + 80]}

\* Three changes of one device 40 ms apart while a change of the other device
\* is pending: one call for each device, the burst's carrying its last change.
C25_Witness ==
    /\ Len(ui.changes) = 4
    /\ ui.changes[1].dev = "hue:b"
    /\ \A i \in 2..4 : ui.changes[i].dev = "elgato:a" /\ ui.changes[i].at = 40 * (i - 2)
    /\ Len(ui.sent) = 2
    /\ ui.sent[1].change = 1
    /\ ui.sent[2].change = 4
    /\ ui.pending = {}

\* The probe results of the finished ticks that found monitoring enabled.
EnabledDoneProbes ==
    LET n == IF loopPc = "probed" THEN Len(ticks) - 1 ELSE Len(ticks)
        done == SelectSeq(SubSeq(ticks, 1, n), LAMBDA t : t.enabled)
    IN  [i \in 1..Len(done) |-> done[i].probe]

LastOr(prev, seq) == IF seq = <<>> THEN prev ELSE seq[Len(seq)]

\* C31: with no CheckNow call, a tick that finds monitoring disabled neither
\* probes, nor invokes the handler, nor changes the last observed value, and
\* the loop goes on ticking; edge detection at the enabled ticks runs against
\* the value the last enabled tick stored, so a value that changed during a
\* pause invokes the handler once, at the first enabled tick after it.
C31_PauseKeepsLastValue ==
    (checks = 0 /\ checkPc = "idle") =>
        /\ HandlerValues = Edges(FALSE, EnabledDoneProbes)
        /\ active = LastOr(FALSE, EnabledDoneProbes)
        /\ \A i \in 1..Len(ticks) :
               (~ticks[i].enabled /\ i = Len(ticks)) => loopPc = "idle"

\* on, two ticks while paused, then the first enabled tick sees off.
C31_Witness ==
    /\ checks = 0
    /\ Len(ticks) = 5
    /\ ticks[1] = [enabled |-> TRUE, probe |-> TRUE]
    /\ ~ticks[2].enabled /\ ~ticks[3].enabled
    /\ ticks[4] = [enabled |-> TRUE, probe |-> FALSE]
    /\ ticks[5] = [enabled |-> TRUE, probe |-> FALSE]
    /\ loopPc = "idle"
    /\ HandlerValues = <<TRUE, FALSE>>

\* C32: every SetInterval call returns, and once the calls have stopped the
\* loop's ticker ends up with the period that was set last.
C32_TickerFollowsInterval ==
    /\ \A c \in IntervalSetters :
           (ticker.setPc[c] = "signal") ~> (ticker.setPc[c] = "idle")
    /\ <>[](ticker.period = interval)

\* The same, for the runs in which the handler returns at every tick.
TickerFollowsUnlessHandlerHangs ==
    /\ \A c \in IntervalSetters :
           (ticker.setPc[c] = "signal") ~> (ticker.setPc[c] = "idle")
    /\ <>[](ticker.pc = "blocked" \/ ticker.period = interval)

\* A signal dropped because one is already buffered.
SignalDroppedWhileBuffered ==
    /\ ticker.resetCh = 1
    /\ ticker.sets = 2
    /\ \A c \in IntervalSetters : ticker.setPc[c] = "idle"
    /\ ticker.period # interval

\* C33: a CheckNow call stores the value it probed as the last observed
\* value and returns it, with monitoring enabled or disabled, and does not
\* invoke the change handler, also when the value differs from the previous
\* last observed value.
C33_CheckNowStoresSilently ==
    [][ checks' = checks + 1 =>
          /\ checkPc = "probed"
          /\ active' = checkCameraOn
          /\ checkCameraOn' = checkCameraOn
          /\ handlerCalls' = handlerCalls
          /\ enabled' = enabled
      ]_vars

\* With monitoring disabled, CheckNow has stored true over the initial false.
C33_Witness ==
    /\ checks = 1
    /\ checkPc = "idle"
    /\ ~enabled
    /\ ticks = <<>>
    /\ active
    /\ checkCameraOn
    /\ handlerCalls = <<>>

\* C34: a goroutine holds the registry lock or the active-scene lock in
\* write mode only at the map or value mutation, never while its controller
\* Discover or command call is in flight.
C34_NoWriteLockDuringIO ==
    \A p \in LockProcs :
        /\ lk.pc[p] \in {"discover", "command"} => lk.regW # p /\ lk.actW # p
        /\ lk.regW = p => lk.pc[p] \in {"merge", "mutate"}
        /\ lk.actW = p => lk.pc[p] = "set"

\* A command of one activation and the Discover calls are in flight while
\* the other activation holds the active-scene lock and SetDeviceRoom waits.
C34_Witness ==
    /\ lk.pc["scan"] = "discover"
    /\ lk.pc["manual"] = "command"
    /\ lk.pc["sensor"] = "set"
    /\ lk.actW = "sensor"
    /\ lk.regW = ""

\* C35: every light update SetState sends carries an integer brightness in
\* [3, 100] and a temperature in [2900, 7000] whatever state was requested;
\* a brightness below 3% is sent as 3 and a missing Kelvin as 4000.
C35_ElgatoUpdateInRange ==
    \A i \in 1..Len(elgato.sent) :
        LET l == elgato.sent[i]
        IN  /\ l.Brightness \in 3..100
            /\ l.Temperature \in 2900..7000
            /\ (~elgato.brightness.nan /\ elgato.brightness.p < 30) => l.Brightness = 3
            /\ elgato.kelvin.nil => l.Temperature = 4000
            /\ l.On = elgato.on

\* 1.4% brightness and no Kelvin, sent twice (the first send failed).
C35_Witness ==
    /\ elgato.brightness = [nan |-> FALSE, p |-> 14]
    /\ elgato.kelvin.nil
    /\ Len(elgato.sent) = 2
    /\ elgato.sent[2] = [On |-> TRUE, Brightness |-> 3, Temperature |-> 4000]

\* C36: whatever way CreateScene and UpdateScene calls of two goroutines
\* interleave, no two stored scenes share a non-empty trigger.
C36_OneScenePerTriggerConcurrently ==
    \A i, j \in 1..Len(scenes) :
        (i # j /\ scenes[i].Trigger # "") => scenes[i].Trigger # scenes[j].Trigger

\* C37: once every activation that wrote the active scene has also emitted
\* its notification, the notifications were emitted in the order of the
\* writes, and the last one names the scene GetActiveScene returns.
C37_NotificationsFollowWrites ==
    (\A p \in Activators : overlap.pc[p] # "notify") =>
        /\ overlap.notified = overlap.written
        /\ overlap.notified # <<>> =>
              overlap.notified[Len(overlap.notified)] = GetActiveScene

\* C38: every credential whose AddHueBridge call returned without error is
\* in the stored bridge list, however the calls overlapped.
C38_NoLostBridge ==
    \A b \in pairing.added : b \in Elements(hueBridges)

\* The goroutines that are inside the onDevices callback.
InCallback == {c \in ScanControllers : cb.g[c] \in {"callback", "adding"}}

\* C39: the onDevices callback never runs in two goroutines at once, and
\* when the scan returns the scanner's running total equals the number of
\* devices returned.
C39_CallbackSerialAndTotalExact ==
    /\ Cardinality(InCallback) <= 1
    /\ cb.pc = "returned" => cb.totalFound = cb.returned

\* A scan returned after two controllers each reported devices through the
\* callback.
C39_Witness ==
    /\ cb.pc = "returned"
    /\ Cardinality({c \in ScanControllers : cb.devices[c] > 0}) >= 2
    /\ cb.totalFound >= 2

\* C40: once the context of a running probe is cancelled, no further worker
\* is started.
C40_NoWorkerStartedAfterCancel ==
    [][probe.cancelled => probe'.inflight <= probe.inflight]_vars

\* A running probe returns, with every worker finished and every permit
\* released, and the dispatcher does not wait for a permit for ever.
ProbeTerminates ==
    /\ (probe.pc \in {"check", "acquire", "wait"}) ~> (probe.pc = "done")
    /\ [](probe.pc = "done" => probe.inflight = 0)

\* After the cancellation at most the worker of the host that had already
\* passed the ctx.Err() check is started.
OnlyCommittedWorkerAfterCancel ==
    [][(probe.cancelled /\ probe'.inflight > probe.inflight) =>
          (probe.pc = "acquire" /\ probe'.pc = "check")]_vars

====
